---- MODULE Spec2Model ----
(***************************************************************************)
(* Model of the design-token generators of design-system-skills:           *)
(*   skills/tokens/color-scale/algorithm.ts   (colour scale, OKLCH)        *)
(*                                                                         *)
(* Numbers.  The program computes in IEEE doubles.  The model computes in  *)
(* signed fixed point with Scale = 10^8 units per 1.0 (angles: HueScale =  *)
(* 10^6 units per degree), every product and quotient truncated toward     *)
(* zero.  Coefficients of the source are written with their first eight    *)
(* decimals.  Math.cbrt, Math.sqrt, Math.pow, Math.atan2, Math.cos and     *)
(* Math.sin are computed to that precision (bisection for the roots,       *)
(* Taylor series for the circular functions).                              *)
(*                                                                         *)
(* Strings are sequences of one-character strings: "#3b82f6" is            *)
(* <<"#","3","b","8","2","f","6">>.                                        *)
(***************************************************************************)
EXTENDS Integers, Sequences, FiniteSets, TLC

(***************************************************************************)
(* Fixed-point arithmetic (the doubles of the program)                     *)
(***************************************************************************)
HalfScale == 10 * 1000

Scale == HalfScale * HalfScale

HueScale == 1000 * 1000

Abs(x) == IF x < 0 THEN -x ELSE x

Sgn(x) == IF x < 0 THEN -1 ELSE 1

Max2(x, y) == IF x >= y THEN x ELSE y

Min2(x, y) == IF x <= y THEN x ELSE y

\* const x = v; F(x): v is evaluated before the statements that use it
With(v, F(_)) == CHOOSE y \in {F(x) : x \in {v}} : TRUE

\* floor(a * b / Scale) for a, b >= 0, without leaving 32 bits
MulNat(a, b) ==
  LET ah == a \div HalfScale
      al == a % HalfScale
      bh == b \div HalfScale
      bl == b % HalfScale
  IN ah * bh + (ah * bl + al * bh + (al * bl) \div HalfScale) \div HalfScale

\* the product x * y of two doubles
Mul(x, y) == Sgn(x) * Sgn(y) * MulNat(Abs(x), Abs(y))

RECURSIVE DivFrac(_, _, _)
\* the first n decimals of r / b, 0 <= r < b
DivFrac(r, b, n) ==
  IF n = 0 THEN 0
  ELSE LET t == r * 10
       IN (t \div b) * (10 ^ (n - 1)) + DivFrac(t % b, b, n - 1)

\* the quotient x / y of two doubles, 0 < |y| < 2.1
Div(x, y) ==
  LET a == Abs(x)
      b == Abs(y)
  IN Sgn(x) * Sgn(y) * ((a \div b) * Scale + DivFrac(a % b, b, 8))

RECURSIVE SqrtSearch(_, _, _)
\* the least y in lo..hi with y * y >= x
SqrtSearch(x, lo, hi) ==
  IF lo >= hi THEN lo
  ELSE LET mid == (lo + hi) \div 2
       IN IF MulNat(mid, mid) >= x THEN SqrtSearch(x, lo, mid)
          ELSE SqrtSearch(x, mid + 1, hi)

\* Math.sqrt(x), x >= 0
Sqrt(x) == SqrtSearch(x, 0, Max2(x, Scale))

RECURSIVE CbrtSearch(_, _, _)
\* the least y in lo..hi with y * y * y >= x
CbrtSearch(x, lo, hi) ==
  IF lo >= hi THEN lo
  ELSE LET mid == (lo + hi) \div 2
       IN IF MulNat(MulNat(mid, mid), mid) >= x THEN CbrtSearch(x, lo, mid)
          ELSE CbrtSearch(x, mid + 1, hi)

\* Math.cbrt(x)
Cbrt(x) == Sgn(x) * CbrtSearch(Abs(x), 0, Max2(Abs(x), Scale))

RECURSIVE Root5Search(_, _, _)
\* the least y in lo..hi with y^5 >= x
Root5Search(x, lo, hi) ==
  IF lo >= hi THEN lo
  ELSE LET mid == (lo + hi) \div 2
           sq == MulNat(mid, mid)
       IN IF MulNat(MulNat(sq, sq), mid) >= x THEN Root5Search(x, lo, mid)
          ELSE Root5Search(x, mid + 1, hi)

\* Math.pow(x, 2.4) for 0 <= x <= 1:  x^2.4 = x^2 * (x^2)^(1/5)
Pow24(x) ==
  LET sq == MulNat(x, x)
  IN MulNat(sq, Root5Search(sq, 0, Scale))

\* Math.pow(x, 1 / 2.4) for 0 <= x <= 1:  x^(5/12) = x^(1/3) * x^(1/12)
PowInv24(x) ==
  LET c == Cbrt(x)
  IN MulNat(c, Sqrt(Sqrt(c)))

\* Math.round(x * 256) in place of Math.round(x * n)
RoundTimes_256(x, n) ==
  LET xh == x \div HalfScale
      xl == x % HalfScale
  IN (xh * 256 + (xl * 256 + Scale \div 2) \div HalfScale) \div HalfScale

\* Math.round(x * n) for a double x >= 0 and an integer n
RoundTimes(x, n) ==
  LET xh == x \div HalfScale
      xl == x % HalfScale
  IN (xh * n + (xl * n + Scale \div 2) \div HalfScale) \div HalfScale

\* Math.PI / 2 and the factors of H * Math.PI / 180 and of x * 180 / Math.PI
PiHalf == 157079632

DegToRad(h) == Mul(h, 174532925)

RadToDeg(x) == Mul(x, 57295779)

RECURSIVE TaylorSum(_, _, _)
\* mag - mag*x2/((k+1)(k+2)) + ... : the alternating series of sin (k = 1) and cos (k = 0)
TaylorSum(mag, x2, k) ==
  IF mag = 0 THEN 0
  ELSE mag - TaylorSum(MulNat(mag, x2) \div ((k + 1) * (k + 2)), x2, k + 2)

\* <<sin x, cos x>> of an angle x in radians
SinCos(x) ==
  LET turn == 4 * PiHalf
      y == ((x % turn) + turn) % turn
      q == y \div PiHalf
      r == y % PiHalf
      r2 == MulNat(r, r)
      s == TaylorSum(r, r2, 1)
      c == TaylorSum(Scale, r2, 0)
  IN CASE q = 0 -> <<s, c>>
       [] q = 1 -> <<c, -s>>
       [] q = 2 -> <<-s, -c>>
       [] OTHER -> <<-c, s>>

RECURSIVE AtanSeries(_, _, _)
\* pw/k - pw*t2/(k+2) + ... : the series of atan t, pw = t^k
AtanSeries(pw, t2, k) ==
  IF pw = 0 THEN 0
  ELSE pw \div k - AtanSeries(MulNat(pw, t2), t2, k + 2)

\* atan t for 0 <= t <= 1, in radians
Atan(t) ==
  IF t > 41421356
  THEN LET u == Div(Scale - t, Scale + t)
       IN PiHalf \div 2 - AtanSeries(u, MulNat(u, u), 1)
  ELSE AtanSeries(t, MulNat(t, t), 1)

\* Math.atan2(y, x), in radians
Atan2(y, x) ==
  LET ax == Abs(x)
      ay == Abs(y)
      base == IF ax = 0 /\ ay = 0 THEN 0
              ELSE IF ay <= ax THEN Atan(Div(ay, ax))
              ELSE PiHalf - Atan(Div(ax, ay))
      theta == IF x >= 0 THEN base ELSE 2 * PiHalf - base
  IN IF y < 0 THEN -theta ELSE theta

(***************************************************************************)
(* Color Space Conversions                                                 *)
(***************************************************************************)
HexDigits == <<"0", "1", "2", "3", "4", "5", "6", "7", "8", "9", "a", "b", "c", "d", "e", "f">>

UpperHexDigits == <<"0", "1", "2", "3", "4", "5", "6", "7", "8", "9", "A", "B", "C", "D", "E", "F">>

\* [a-f\d] without the flag i: the capital letters A-F do not match
IsHexDigit_LowerOnly(ch) == \E i \in 1..16 : HexDigits[i] = ch

\* the class [a-f\d] under the flag i
IsHexDigit(ch) ==
  \E i \in 1..16 : HexDigits[i] = ch \/ UpperHexDigits[i] = ch

\* the value of one digit to parseInt(_, 16)
DigitValue(ch) ==
  (CHOOSE i \in 1..16 : HexDigits[i] = ch \/ UpperHexDigits[i] = ch) - 1

\* parseInt(s, 16) of a group of two hexadecimal digits
ParseInt16(s) == DigitValue(s[1]) * 16 + DigitValue(s[2])

\* the regular expression of hexToRgb without its anchors ^ and $: the first six
\* hexadecimal digits found anywhere in the string
HexRegexExec_Unanchored(hex) ==
  LET starts == {k \in 0..(Len(hex) - 6) : \A i \in 1..6 : IsHexDigit(hex[k + i])}
  IN IF starts = {} THEN <<>>
     ELSE LET k == CHOOSE n \in starts : \A o \in starts : n <= o
          IN <<SubSeq(hex, k + 1, k + 2), SubSeq(hex, k + 3, k + 4), SubSeq(hex, k + 5, k + 6)>>

\* the three groups of /^#?([a-f\d]{2})([a-f\d]{2})([a-f\d]{2})$/i in hex,
\* or <<>> when the expression does not match
HexRegexExec(hex) ==
  LET body == IF Len(hex) > 0 /\ hex[1] = "#" THEN Tail(hex) ELSE hex
  IN IF Len(body) = 6 /\ \A i \in 1..6 : IsHexDigit(body[i])
     THEN <<SubSeq(body, 1, 2), SubSeq(body, 3, 4), SubSeq(body, 5, 6)>>
     ELSE <<>>

\* hexToRgb's fallback with white in place of black
NoMatchRgb_White == <<255, 255, 255>>

NoMatchRgb == <<0, 0, 0>>

\* Convert hex to RGB tuple
hexToRgb(hex) ==
  LET result == HexRegexExec(hex)
  IN IF result = <<>> THEN NoMatchRgb
     ELSE <<ParseInt16(result[1]), ParseInt16(result[2]), ParseInt16(result[3])>>

RECURSIVE ToString16_Upper(_)
\* n.toString(16) with the digits A-F in capitals
ToString16_Upper(n) ==
  IF n < 16 THEN <<UpperHexDigits[n + 1]>>
  ELSE Append(ToString16_Upper(n \div 16), UpperHexDigits[(n % 16) + 1])

RECURSIVE ToString16(_)
\* n.toString(16) of an integer n >= 0
ToString16(n) ==
  IF n < 16 THEN <<HexDigits[n + 1]>>
  ELSE Append(ToString16(n \div 16), HexDigits[(n % 16) + 1])

\* the clamp of rgbToHex without Math.min(255, x)
ClampByte_LowOnly(x) == Max2(0, x)

\* Math.max(0, Math.min(255, x))
ClampByte(x) == Max2(0, Min2(255, x))

\* the map callback of rgbToHex without the '0' + hex of one-digit values
ChannelHex_NoPad(x) == ToString16(ClampByte(x))

\* one channel of rgbToHex: clamped, in base 16, padded to two digits; the channels
\* are integers, on which Math.round changes nothing
ChannelHex(x) ==
  LET hex == ToString16(ClampByte(x))
  IN IF Len(hex) = 1 THEN <<"0">> \o hex ELSE hex

\* Convert RGB to hex string (the channels are integers: Math.round keeps them)
rgbToHex(r, g, b) == <<"#">> \o ChannelHex(r) \o ChannelHex(g) \o ChannelHex(b)

\* srgbToLinear without the linear segment c / 12.92 of the dark values
srgbToLinear_GammaOnly(c) == Pow24(Div(Div(c, 255) + 5500000, 105500000))

\* sRGB to linear RGB (gamma expansion); c is a byte
srgbToLinear(c) ==
  LET cn == Div(c, 255)
  IN IF cn <= 4045000 THEN (cn * 100) \div 1292
     ELSE Pow24(Div(cn + 5500000, 105500000))

\* Math.max(0, Math.min(1, c))
ClampUnit(c) == Max2(0, Min2(Scale, c))

\* Linear RGB to sRGB (gamma compression)
linearToSrgb(c) ==
  LET clamped == ClampUnit(c)
  IN IF clamped <= 313080
     THEN RoundTimes((clamped * 1292) \div 100, 255)
     ELSE RoundTimes(MulNat(105500000, PowInv24(clamped)) - 5500000, 255)

\* rgbToOklch without its line "if (H < 0) H += 360"
WrapNegativeHue_Never(H) == H

\* if (H < 0) H += 360
WrapNegativeHue(H) == IF H < 0 THEN H + 360 * HueScale ELSE H

\* RGB to OKLCH: <<L, C, H>>, L and C in units of 1/Scale, H in 1/HueScale degrees
rgbToOklch(r, g, b) ==
  With(<<srgbToLinear(r), srgbToLinear(g), srgbToLinear(b)>>, LAMBDA lin :
  With(LET lr == lin[1]
           lg == lin[2]
           lb == lin[3]
           l_ == Mul(41222147, lr) + Mul(53633253, lg) + Mul(5144599, lb)
           m_ == Mul(21190349, lr) + Mul(68069954, lg) + Mul(10739695, lb)
           s_ == Mul(8830246, lr) + Mul(28171883, lg) + Mul(62997870, lb)
       IN <<Cbrt(l_), Cbrt(m_), Cbrt(s_)>>, LAMBDA lms :
  With(LET l == lms[1]
           m == lms[2]
           s == lms[3]
       IN <<Mul(21045425, l) + Mul(79361778, m) - Mul(407204, s),
            Mul(197799849, l) - Mul(242859220, m) + Mul(45059370, s),
            Mul(2590403, l) + Mul(78277176, m) - Mul(80867576, s)>>, LAMBDA lab :
    LET L == lab[1]
        a == lab[2]
        bVal == lab[3]
        C == Sqrt(Mul(a, a) + Mul(bVal, bVal))
        H == WrapNegativeHue(RadToDeg(Atan2(bVal, a)))
    IN <<L, C, H>>)))

\* OKLCH to RGB
oklchToRgb(L, C, H) ==
  With(SinCos(DegToRad(H)), LAMBDA sc :
  With(LET a == Mul(C, sc[2])
           b == Mul(C, sc[1])
           l_ == L + Mul(39633777, a) + Mul(21580375, b)
           m_ == L - Mul(10556134, a) - Mul(6385417, b)
           s_ == L - Mul(8948417, a) - Mul(129148554, b)
       IN <<Mul(Mul(l_, l_), l_), Mul(Mul(m_, m_), m_), Mul(Mul(s_, s_), s_)>>, LAMBDA lms :
  With(LET l == lms[1]
           m == lms[2]
           s == lms[3]
       IN <<Mul(407674166, l) - Mul(330771159, m) + Mul(23096992, s),
            Mul(260975740, m) - Mul(126843800, l) - Mul(34131939, s),
            Mul(170761470, s) - Mul(419608, l) - Mul(70341861, m)>>, LAMBDA lin :
    <<linearToSrgb(lin[1]), linearToSrgb(lin[2]), linearToSrgb(lin[3])>>)))

\* Math.floor(num / den) in place of Math.round(num / den)
RoundRatio_Floor(num, den) == num \div den

\* Math.round(num / den) for integers num >= 0, den > 0
RoundRatio(num, den) == (2 * num + den) \div (2 * den)

\* RGB to HSL; the quotients of the source are kept as exact fractions
rgbToHsl(r, g, b) ==
  LET max == Max2(r, Max2(g, b))
      min == Min2(r, Min2(g, b))
      d == max - min
      \* h * 360 = hNum / d,  s * 100 = sNum / sDen,  l * 100 = 100 (max + min) / 510
      hNum == IF max = r THEN 60 * (g - b) + (IF g < b THEN 360 * d ELSE 0)
              ELSE IF max = g THEN 60 * (b - r) + 120 * d
              ELSE 60 * (r - g) + 240 * d
      sDen == IF max + min > 255 THEN 510 - max - min ELSE max + min
  IN IF max = min THEN <<0, 0, RoundRatio(100 * (max + min), 510)>>
     ELSE <<RoundRatio(hNum, d), RoundRatio(100 * d, sDen), RoundRatio(100 * (max + min), 510)>>

(***************************************************************************)
(* Scale Generation                                                        *)
(***************************************************************************)
VARIABLES
  LIGHTNESS_STOPS,  \* the module's table of lightness stops (an array object)
  input,            \* the arguments the caller holds
  call,             \* the last invocation that returned: its function, arguments and result
  log,              \* the generator invocations that returned, oldest first
  frames            \* the invocations in progress of callers that run side by side

vars == <<LIGHTNESS_STOPS, input, call, log, frames>>

\* one hundredth, as a double
Centi == Scale \div 100

\* LIGHTNESS_STOPS with the lightness of the steps 500 and 600 exchanged
LightnessStopTable_Swapped == <<
  [step |-> 50,  L |-> 97 * Centi],
  [step |-> 100, L |-> 93 * Centi],
  [step |-> 200, L |-> 87 * Centi],
  [step |-> 300, L |-> 78 * Centi],
  [step |-> 400, L |-> 65 * Centi],
  [step |-> 500, L |-> 45 * Centi],
  [step |-> 600, L |-> 55 * Centi],
  [step |-> 700, L |-> 37 * Centi],
  [step |-> 800, L |-> 27 * Centi],
  [step |-> 900, L |-> 20 * Centi],
  [step |-> 950, L |-> 14 * Centi] >>

\* The 11 lightness stops as the module creates them
LightnessStopTable == <<
  [step |-> 50,  L |-> 97 * Centi],
  [step |-> 100, L |-> 93 * Centi],
  [step |-> 200, L |-> 87 * Centi],
  [step |-> 300, L |-> 78 * Centi],
  [step |-> 400, L |-> 65 * Centi],
  [step |-> 500, L |-> 55 * Centi],
  [step |-> 600, L |-> 45 * Centi],
  [step |-> 700, L |-> 37 * Centi],
  [step |-> 800, L |-> 27 * Centi],
  [step |-> 900, L |-> 20 * Centi],
  [step |-> 950, L |-> 14 * Centi] >>

\* chromaMultiplier without the reduction at the extremes
chromaMultiplier_Flat(L) == Scale

\* chromaMultiplier with both comparisons inclusive
chromaMultiplier_Inclusive(L) ==
  IF L >= 90 * Centi THEN 30 * Centi
  ELSE IF L <= 20 * Centi THEN 70 * Centi
  ELSE Scale

\* Reduce chroma at extremes: L > 0.9 ? 0.3 : L < 0.2 ? 0.7 : 1
chromaMultiplier(L) ==
  IF L > 90 * Centi THEN 30 * Centi
  ELSE IF L < 20 * Centi THEN 70 * Centi
  ELSE Scale

\* ColorStopOf with the hsl of the channels before they are clamped and rounded:
\* of the target's lightness as a grey
ColorStopOf_HslOfTarget(stop, C, H) ==
  With(Mul(C, chromaMultiplier(stop.L)), LAMBDA adjustedC :
  With(oklchToRgb(stop.L, adjustedC, H), LAMBDA new :
    [step |-> stop.step,
     hex |-> rgbToHex(new[1], new[2], new[3]),
     oklch |-> <<stop.L, adjustedC, H>>,
     rgb |-> new,
     hsl |-> <<0, 0, RoundRatio(stop.L, Centi)>>]))

\* the body of the map callback of generateColorScale: one ColorStop
ColorStopOf(stop, C, H) ==
  With(Mul(C, chromaMultiplier(stop.L)), LAMBDA adjustedC :
  With(oklchToRgb(stop.L, adjustedC, H), LAMBDA new :
    [step |-> stop.step,
     hex |-> rgbToHex(new[1], new[2], new[3]),
     oklch |-> <<stop.L, adjustedC, H>>,
     rgb |-> new,
     hsl |-> rgbToHsl(new[1], new[2], new[3])]))

\* generateColorScale with the lightness of the base colour kept in every stop
generateColorScale_KeepL(hex) ==
  With(hexToRgb(hex), LAMBDA rgb :
  With(rgbToOklch(rgb[1], rgb[2], rgb[3]), LAMBDA lch :
    [i \in 1..Len(LIGHTNESS_STOPS) |->
       ColorStopOf([LIGHTNESS_STOPS[i] EXCEPT !.L = lch[1]], lch[2], lch[3])]))

\* Generate 11-step color scale from base hex
generateColorScale(hex) ==
  With(hexToRgb(hex), LAMBDA rgb :
  With(rgbToOklch(rgb[1], rgb[2], rgb[3]), LAMBDA lch :
    [i \in 1..Len(LIGHTNESS_STOPS) |-> ColorStopOf(LIGHTNESS_STOPS[i], lch[2], lch[3])]))

\* generateNeutralScale with the chroma of the brand colour in place of 0.01
generateNeutralScale_BrandChroma(brandHex) ==
  With(hexToRgb(brandHex), LAMBDA rgb :
  With(rgbToOklch(rgb[1], rgb[2], rgb[3]), LAMBDA lch :
  With(oklchToRgb(55 * Centi, lch[2], lch[3]), LAMBDA n :
  With(rgbToHex(n[1], n[2], n[3]), LAMBDA neutralHex :
    generateColorScale(neutralHex)))))

\* Generate neutral scale tinted with brand hue
generateNeutralScale(brandHex) ==
  With(hexToRgb(brandHex), LAMBDA rgb :
  With(rgbToOklch(rgb[1], rgb[2], rgb[3]), LAMBDA lch :
  With(oklchToRgb(55 * Centi, 1 * Centi, lch[3]), LAMBDA n :
  With(rgbToHex(n[1], n[2], n[3]), LAMBDA neutralHex :
    generateColorScale(neutralHex)))))

\* x % m of the program: the remainder has the sign of x
Rem(x, m) == Sgn(x) * (Abs(x) % m)

\* normalizedHue with one remainder only: blendedHue % 360
normalizedHue_OneRemainder(brandH, baseHue, influence) ==
  Rem(baseHue + Mul(brandH - baseHue, influence), 360 * HueScale)

\* blendedHue and normalizedHue of generateHarmonizedSemantic
normalizedHue(brandH, baseHue, influence) ==
  LET blendedHue == baseHue + Mul(brandH - baseHue, influence)
  IN Rem(Rem(blendedHue, 360 * HueScale) + 360 * HueScale, 360 * HueScale)

\* generateHarmonizedSemantic with the lightness of the brand colour in place of 0.55
generateHarmonizedSemantic_BrandLightness(brandHex, baseHue, influence) ==
  With(hexToRgb(brandHex), LAMBDA rgb :
  With(rgbToOklch(rgb[1], rgb[2], rgb[3]), LAMBDA lch :
  With(normalizedHue(lch[3], baseHue, influence), LAMBDA hue :
  With(oklchToRgb(lch[1], 15 * Centi, hue), LAMBDA c :
    [hex |-> rgbToHex(c[1], c[2], c[3]), brandH |-> lch[3], normalizedHue |-> hue]))))

\* Blend semantic hue toward brand for visual harmony: hex is the string returned,
\* brandH and normalizedHue are the values of the locals at the return
generateHarmonizedSemantic(brandHex, baseHue, influence) ==
  With(hexToRgb(brandHex), LAMBDA rgb :
  With(rgbToOklch(rgb[1], rgb[2], rgb[3]), LAMBDA lch :
  With(normalizedHue(lch[3], baseHue, influence), LAMBDA hue :
  With(oklchToRgb(55 * Centi, 15 * Centi, hue), LAMBDA c :
    [hex |-> rgbToHex(c[1], c[2], c[3]), brandH |-> lch[3], normalizedHue |-> hue]))))

\* generateSemanticColors without the info scale
generateSemanticColors_NoInfo(brandHex) ==
  With(generateHarmonizedSemantic(brandHex, 145 * HueScale, 10 * Centi).hex, LAMBDA successHex :
  With(generateHarmonizedSemantic(brandHex, 70 * HueScale, 10 * Centi).hex, LAMBDA warningHex :
  With(generateHarmonizedSemantic(brandHex, 25 * HueScale, 8 * Centi).hex, LAMBDA errorHex :
    [success |-> generateColorScale(successHex),
     warning |-> generateColorScale(warningHex),
     error |-> generateColorScale(errorHex)])))

\* Generate semantic colors harmonized with brand
generateSemanticColors(brandHex) ==
  With(generateHarmonizedSemantic(brandHex, 145 * HueScale, 10 * Centi).hex, LAMBDA successHex :
  With(generateHarmonizedSemantic(brandHex, 70 * HueScale, 10 * Centi).hex, LAMBDA warningHex :
  With(generateHarmonizedSemantic(brandHex, 25 * HueScale, 8 * Centi).hex, LAMBDA errorHex :
  With(generateHarmonizedSemantic(brandHex, 250 * HueScale, 15 * Centi).hex, LAMBDA infoHex :
    [success |-> generateColorScale(successHex),
     warning |-> generateColorScale(warningHex),
     error |-> generateColorScale(errorHex),
     info |-> generateColorScale(infoHex)]))))

(***************************************************************************)
(* Output Formatting                                                       *)
(***************************************************************************)
DecimalDigits == <<"0", "1", "2", "3", "4", "5", "6", "7", "8", "9">>

\* the template literal's rendering of an integer n >= 0
RECURSIVE ToString10(_)
ToString10(n) ==
  IF n < 10 THEN <<DecimalDigits[n + 1]>>
  ELSE Append(ToString10(n \div 10), DecimalDigits[(n % 10) + 1])

\* n >= 0 in at least f digits, zeros in front
RECURSIVE PadDigits(_, _)
PadDigits(n, f) ==
  IF f = 0 THEN <<>> ELSE Append(PadDigits(n \div 10, f - 1), DecimalDigits[(n % 10) + 1])

\* (x).toFixed(f) for x >= 0 held in units of 1/unit: the integer n with n / 10^f
\* nearest to x, the larger one of two, then its digits with f of them after the point
ToFixed(x, unit, f) ==
  LET n == RoundRatio(x, unit \div (10 ^ f))
  IN ToString10(n \div (10 ^ f)) \o <<".">> \o PadDigits(n % (10 ^ f), f)

\* formatColor with the legacy commas between the channels of rgb()
formatColor_Commas(stop, format) ==
  CASE format = "oklch" ->
         <<"o", "k", "l", "c", "h", "(">> \o ToFixed(stop.oklch[1], Centi, 1) \o <<"%", " ">>
           \o ToFixed(stop.oklch[2], Scale, 3) \o <<" ">>
           \o ToFixed(stop.oklch[3], HueScale, 1) \o <<")">>
    [] format = "hsl" ->
         <<"h", "s", "l", "(">> \o ToString10(stop.hsl[1]) \o <<" ">>
           \o ToString10(stop.hsl[2]) \o <<"%", " ">>
           \o ToString10(stop.hsl[3]) \o <<"%", ")">>
    [] format = "rgb" ->
         <<"r", "g", "b", "(">> \o ToString10(stop.rgb[1]) \o <<",", " ">>
           \o ToString10(stop.rgb[2]) \o <<",", " ">>
           \o ToString10(stop.rgb[3]) \o <<")">>
    [] OTHER -> stop.hex

\* formatColor: (stop.oklch[0] * 100) is the lightness in units of 1/Centi
formatColor(stop, format) ==
  CASE format = "oklch" ->
         <<"o", "k", "l", "c", "h", "(">> \o ToFixed(stop.oklch[1], Centi, 1) \o <<"%", " ">>
           \o ToFixed(stop.oklch[2], Scale, 3) \o <<" ">>
           \o ToFixed(stop.oklch[3], HueScale, 1) \o <<")">>
    [] format = "hsl" ->
         <<"h", "s", "l", "(">> \o ToString10(stop.hsl[1]) \o <<" ">>
           \o ToString10(stop.hsl[2]) \o <<"%", " ">>
           \o ToString10(stop.hsl[3]) \o <<"%", ")">>
    [] format = "rgb" ->
         <<"r", "g", "b", "(">> \o ToString10(stop.rgb[1]) \o <<" ">>
           \o ToString10(stop.rgb[2]) \o <<" ">>
           \o ToString10(stop.rgb[3]) \o <<")">>
    [] OTHER -> stop.hex

(***************************************************************************)
(* skills/tokens/spacing-scale/algorithm.ts and                            *)
(* skills/tokens/type-scale/algorithm.ts                                   *)
(*                                                                         *)
(* Sizes are held in thousandths (Milli units per 1.0), ratios as exact    *)
(* fractions <<p, q>>, so that baseValue * Math.pow(ratio, exponent) is an *)
(* exact fraction and Math.round(value * 100) rounds it half up.           *)
(***************************************************************************)
Milli == 1000

\* Math.round(value * 100) / 100 in thousandths, for value = base * (p/q)^exponent
\* and base in thousandths
RoundedValue(base, ratio, exponent) ==
  IF exponent >= 0
  THEN 10 * RoundRatio(base * ratio[1] ^ exponent, 10 * ratio[2] ^ exponent)
  ELSE 10 * RoundRatio(base * ratio[2] ^ (0 - exponent), 10 * ratio[1] ^ (0 - exponent))

RECURSIVE StripZeros(_)
\* digits after the decimal point without the zeros at their end
StripZeros(digits) ==
  IF digits # <<>> /\ digits[Len(digits)] = "0"
  THEN StripZeros(SubSeq(digits, 1, Len(digits) - 1))
  ELSE digits

\* the template literal's rendering of a number x >= 0 held in thousandths
NumberToString(x) ==
  IF x % Milli = 0 THEN ToString10(x \div Milli)
  ELSE ToString10(x \div Milli) \o <<".">> \o StripZeros(PadDigits(x % Milli, 3))

\* T-shirt size names from smallest to largest
TSHIRT_SIZES == <<
  <<"3", "x", "s">>, <<"2", "x", "s">>, <<"x", "s">>, <<"s", "m">>, <<"m", "d">>,
  <<"l", "g">>, <<"x", "l">>, <<"2", "x", "l">>, <<"3", "x", "l">>, <<"4", "x", "l">>,
  <<"5", "x", "l">>, <<"6", "x", "l">> >>

\* the name of token i with the index into TSHIRT_SIZES clamped to its last element
SpacingName_Clamped(i, midpoint, namingStyle) ==
  IF namingStyle = "tshirt"
  THEN TSHIRT_SIZES[Min2(i + Max2(0, 4 - midpoint), Len(TSHIRT_SIZES) - 1) + 1]
  ELSE ToString10((i + 1) * 100)

\* the name of token i: TSHIRT_SIZES[sizeIndex] || `${i + 1}`, or String((i + 1) * 100)
SpacingName(i, midpoint, namingStyle) ==
  IF namingStyle = "tshirt"
  THEN LET sizeIndex == i + Max2(0, 4 - midpoint)
       IN IF sizeIndex < Len(TSHIRT_SIZES) THEN TSHIRT_SIZES[sizeIndex + 1]
          ELSE ToString10(i + 1)
  ELSE ToString10((i + 1) * 100)

\* Generate a spacing scale: the tokens pushed for i = 0, ..., steps - 1
generateSpacingScale(baseValue, ratio, steps, unit, namingStyle) ==
  LET midpoint == steps \div 2
  IN [n \in 1..steps |->
       LET i == n - 1
           roundedValue == RoundedValue(baseValue, ratio, i - midpoint)
       IN [name |-> SpacingName(i, midpoint, namingStyle),
           value |-> roundedValue,
           formatted |-> NumberToString(roundedValue) \o unit]]

\* Names for sizes below base
TYPE_NAMES_DOWN == <<<<"x", "x", "s">>, <<"x", "s">>, <<"s", "m">>>>

\* Names for sizes above base
TYPE_NAMES_UP == <<
  <<"l", "g">>, <<"x", "l">>, <<"2", "x", "l">>, <<"3", "x", "l">>, <<"4", "x", "l">>,
  <<"5", "x", "l">>, <<"6", "x", "l">>, <<"7", "x", "l">>, <<"8", "x", "l">>,
  <<"9", "x", "l">> >>

\* Calculate optimal line height based on font size; the result in hundredths
calculateLineHeight(fontSize) ==
  IF fontSize <= 14 * Milli THEN 170
  ELSE IF fontSize <= 18 * Milli THEN 160
  ELSE IF fontSize <= 24 * Milli THEN 150
  ELSE IF fontSize <= 32 * Milli THEN 140
  ELSE IF fontSize <= 48 * Milli THEN 130
  ELSE 120

\* the token pushed for a size below or above base
TypeTokenOf(name, roundedSize, unit) ==
  [name |-> name,
   size |-> roundedSize,
   formatted |-> NumberToString(roundedSize) \o unit,
   lineHeight |-> ToFixed(calculateLineHeight(roundedSize), 100, 2)]

\* TYPE_NAMES_DOWN[nameIndex] || `down-${i}` with nameIndex = i - 1
TypeNameDown_Ascending(i) ==
  IF i - 1 < Len(TYPE_NAMES_DOWN) THEN TYPE_NAMES_DOWN[i]
  ELSE <<"d", "o", "w", "n", "-">> \o ToString10(i)

\* TYPE_NAMES_DOWN[nameIndex] || `down-${i}` with nameIndex = 3 - i
TypeNameDown(i) ==
  IF 3 - i >= 0 THEN TYPE_NAMES_DOWN[3 - i + 1]
  ELSE <<"d", "o", "w", "n", "-">> \o ToString10(i)

\* TYPE_NAMES_UP[i - 1] || `${i + 1}xl`
TypeNameUp(i) ==
  IF i - 1 < Len(TYPE_NAMES_UP) THEN TYPE_NAMES_UP[i]
  ELSE ToString10(i + 1) \o <<"x", "l">>

\* Generate a typography scale: the steps below base, smallest first, the base size,
\* the steps above base
generateTypeScale(baseSize, ratio, stepsUp, stepsDown, unit) ==
  [n \in 1..stepsDown |->
     LET i == stepsDown + 1 - n
     IN TypeTokenOf(TypeNameDown(i), RoundedValue(baseSize, ratio, 0 - i), unit)]
  \o <<[name |-> <<"b", "a", "s", "e">>,
        size |-> baseSize,
        formatted |-> NumberToString(baseSize) \o unit,
        lineHeight |-> ToFixed(calculateLineHeight(baseSize), 100, 2)]>>
  \o [n \in 1..stepsUp |->
        TypeTokenOf(TypeNameUp(n), RoundedValue(baseSize, ratio, n), unit)]

RECURSIVE ObjectMembers(_)
\* the members of obj after obj[key] = value for each assignment in turn: an
\* assignment to a key that is there replaces its value in place
ObjectMembers(assignments) ==
  IF assignments = <<>> THEN <<>>
  ELSE LET before == ObjectMembers(SubSeq(assignments, 1, Len(assignments) - 1))
           last == assignments[Len(assignments)]
       IN IF \E m \in 1..Len(before) : before[m].key = last.key
          THEN [m \in 1..Len(before) |->
                  IF before[m].key = last.key THEN last ELSE before[m]]
          ELSE Append(before, last)

\* Generate JSON tokens of a spacing scale: the members of { spacing: obj }
generateSpacingJSON(tokens, prefix) ==
  ObjectMembers([k \in 1..Len(tokens) |->
    [key |-> prefix \o <<"-">> \o tokens[k].name, value |-> tokens[k].formatted]])

\* Generate JSON tokens of a type scale: the members of { typography: obj }
generateTypeJSON(tokens, prefix) ==
  ObjectMembers([k \in 1..Len(tokens) |->
    [key |-> prefix \o <<"-">> \o tokens[k].name,
     value |-> [fontSize |-> tokens[k].formatted, lineHeight |-> tokens[k].lineHeight]]])

(***************************************************************************)
(* The callers: inputs, invocations                                        *)
(***************************************************************************)
\* invocations of the generators in one behaviour
MaxCalls == 3

\* length of the strings given to hexToRgb
MaxLen == 7

Alphabet == {"#", "0", "a", "F", "g"}

\* every string over Alphabet of at most n characters
StringsUpTo(n) == UNION {[1..k -> Alphabet] : k \in 0..n}

UsageHex == <<"#", "3", "B", "8", "2", "F", "6">>

BlackHex == <<"#", "0", "0", "0", "0", "0", "0">>

NotAColor == <<"n", "o", "t", "-", "a", "-", "c", "o", "l", "o", "r">>

\* strings that are no #RRGGBB: a word, the empty string, three digits, eight digits,
\* surrounding blanks, a trailing line break, two number signs
MalformedExamples == {
  NotAColor,
  <<>>,
  <<"#", "f", "f", "f">>,
  <<"#", "3", "B", "8", "2", "F", "6", "F", "F">>,
  <<" ", "#", "3", "b", "8", "2", "f", "6", " ">>,
  <<"3", "b", "8", "2", "f", "6", "\n">>,
  <<"#", "#", "3", "b", "8", "2", "f", "6">> }

\* the brand colours given to the generators
BrandInputs == {
  UsageHex,
  BlackHex,
  <<"#", "d", "7", "2", "8", "9", "1">>,
  <<"#", "F", "F", "F", "F", "F", "F">>,
  NotAColor,
  <<"#", "f", "f", "f">>,
  <<>> }

Returned(fn, args, ret) == [fn |-> fn, args |-> args, ret |-> ret]

NoCall == [fn |-> "none"]

Init ==
  /\ LIGHTNESS_STOPS = LightnessStopTable
  /\ input \in BrandInputs
  /\ call = NoCall
  /\ log = <<>>
  /\ frames = <<>>

\* generateColorScale in place of GenerateColorScale's call: the table reversed in place
GenerateColorScale_Reversing ==
  /\ Len(log) < MaxCalls
  /\ call' = Returned("generateColorScale", input, generateColorScale(input))
  /\ log' = Append(log, call')
  /\ LIGHTNESS_STOPS' = [i \in 1..Len(LIGHTNESS_STOPS) |->
                           LIGHTNESS_STOPS[Len(LIGHTNESS_STOPS) + 1 - i]]
  /\ UNCHANGED <<input, frames>>

\* a caller invokes generateColorScale(input)
GenerateColorScale ==
  /\ Len(log) < MaxCalls
  /\ call' = Returned("generateColorScale", input, generateColorScale(input))
  /\ log' = Append(log, call')
  /\ UNCHANGED <<LIGHTNESS_STOPS, input, frames>>

\* a caller invokes generateNeutralScale(input)
GenerateNeutralScale ==
  /\ Len(log) < MaxCalls
  /\ call' = Returned("generateNeutralScale", input, generateNeutralScale(input))
  /\ log' = Append(log, call')
  /\ UNCHANGED <<LIGHTNESS_STOPS, input, frames>>

\* a caller invokes generateSemanticColors(input)
GenerateSemanticColors ==
  /\ Len(log) < MaxCalls
  /\ call' = Returned("generateSemanticColors", input, generateSemanticColors(input))
  /\ log' = Append(log, call')
  /\ UNCHANGED <<LIGHTNESS_STOPS, input, frames>>

Next ==
  \/ GenerateColorScale
  \/ GenerateNeutralScale
  \/ GenerateSemanticColors

\* the generators applied to one brand colour, in any order
Spec == Init /\ [][Next]_vars

(***************************************************************************)
(* hexToRgb on the strings over Alphabet and on the malformed examples     *)
(***************************************************************************)
InitHex ==
  /\ LIGHTNESS_STOPS = LightnessStopTable
  /\ input \in StringsUpTo(MaxLen) \cup MalformedExamples
  /\ call = NoCall
  /\ log = <<>>
  /\ frames = <<>>

\* a caller invokes hexToRgb(input)
HexToRgb ==
  /\ call' = Returned("hexToRgb", input, hexToRgb(input))
  /\ UNCHANGED <<LIGHTNESS_STOPS, input, log, frames>>

NextHex == HexToRgb

SpecHex == InitHex /\ [][NextHex]_vars

(***************************************************************************)
(* rgbToHex on integers inside and outside 0..255                          *)
(***************************************************************************)
ChannelSamples == {-300, -10, -1, 0, 1, 9, 10, 15, 16, 128, 254, 255, 256, 300, 1000}

InitRgbToHex ==
  /\ LIGHTNESS_STOPS = LightnessStopTable
  /\ input \in [1..3 -> ChannelSamples]
  /\ call = NoCall
  /\ log = <<>>
  /\ frames = <<>>

\* a caller invokes rgbToHex(r, g, b)
RgbToHex ==
  /\ call' = Returned("rgbToHex", input, rgbToHex(input[1], input[2], input[3]))
  /\ UNCHANGED <<LIGHTNESS_STOPS, input, log, frames>>

NextRgbToHex == RgbToHex

SpecRgbToHex == InitRgbToHex /\ [][NextRgbToHex]_vars

(***************************************************************************)
(* rgbToOklch, then oklchToRgb on what it returned                         *)
(***************************************************************************)
ByteSamples == {0, 1, 2, 10, 11, 59, 128, 130, 246, 254, 255}

InitRoundTrip ==
  /\ LIGHTNESS_STOPS = LightnessStopTable
  /\ input \in [1..3 -> ByteSamples]
  /\ call = NoCall
  /\ log = <<>>
  /\ frames = <<>>

\* a caller invokes rgbToOklch(r, g, b)
RgbToOklch ==
  /\ call.fn = "none"
  /\ call' = Returned("rgbToOklch", input, rgbToOklch(input[1], input[2], input[3]))
  /\ UNCHANGED <<LIGHTNESS_STOPS, input, log, frames>>

\* the caller passes the three numbers returned to oklchToRgb
OklchToRgb ==
  /\ call.fn = "rgbToOklch"
  /\ call' = Returned("oklchToRgb", call.ret, oklchToRgb(call.ret[1], call.ret[2], call.ret[3]))
  /\ UNCHANGED <<LIGHTNESS_STOPS, input, log, frames>>

NextRoundTrip ==
  \/ RgbToOklch
  \/ OklchToRgb

SpecRoundTrip == InitRoundTrip /\ [][NextRoundTrip]_vars

(***************************************************************************)
(* generateHarmonizedSemantic on brand colours, base hues and influences   *)
(***************************************************************************)
HueBrands == {
  <<"#", "d", "7", "2", "8", "9", "1">>,
  UsageHex,
  <<"#", "f", "f", "0", "0", "0", "0">>,
  <<"#", "0", "0", "f", "f", "0", "0">>,
  <<"#", "f", "5", "9", "e", "0", "b">>,
  NotAColor }

BaseHues == {10 * HueScale, 25 * HueScale, 70 * HueScale, 145 * HueScale, 250 * HueScale}

Influences == {8 * Centi, 10 * Centi, 15 * Centi, 50 * Centi, Scale}

InitHue ==
  /\ LIGHTNESS_STOPS = LightnessStopTable
  /\ input \in [brandHex : HueBrands, baseHue : BaseHues, influence : Influences]
  /\ call = NoCall
  /\ log = <<>>
  /\ frames = <<>>

\* a caller invokes generateHarmonizedSemantic(brandHex, baseHue, influence)
GenerateHarmonizedSemantic ==
  /\ call' = Returned("generateHarmonizedSemantic", input,
                      generateHarmonizedSemantic(input.brandHex, input.baseHue, input.influence))
  /\ UNCHANGED <<LIGHTNESS_STOPS, input, log, frames>>

NextHue == GenerateHarmonizedSemantic

SpecHue == InitHue /\ [][NextHue]_vars

(***************************************************************************)
(* generateHarmonizedSemantic on base hues and influences of any sign      *)
(***************************************************************************)
\* base hues below 0, inside [0, 360) and from 360 on; influences below 0, inside
\* [0, 1] and above 1
InitNormalize ==
  /\ LIGHTNESS_STOPS = LightnessStopTable
  /\ input \in [brandHex : {UsageHex, <<"#", "d", "7", "2", "8", "9", "1">>, NotAColor},
                baseHue : {-725 * HueScale, -360 * HueScale, -10 * HueScale, 0,
                           70 * HueScale, 359 * HueScale, 360 * HueScale, 725 * HueScale},
                influence : {-50 * Centi, 0, 8 * Centi, 15 * Centi, Scale, 150 * Centi}]
  /\ call = NoCall
  /\ log = <<>>
  /\ frames = <<>>

SpecNormalize == InitNormalize /\ [][GenerateHarmonizedSemantic]_vars

(***************************************************************************)
(* hexToRgb and generateColorScale on spellings of the same colours        *)
(***************************************************************************)
\* a letter A-F as a-f, any other character unchanged
LowerChar(ch) ==
  IF \E i \in 11..16 : UpperHexDigits[i] = ch
  THEN HexDigits[CHOOSE i \in 11..16 : UpperHexDigits[i] = ch]
  ELSE ch

\* a letter a-f as A-F, any other character unchanged
UpperChar(ch) ==
  IF \E i \in 11..16 : HexDigits[i] = ch
  THEN UpperHexDigits[CHOOSE i \in 11..16 : HexDigits[i] = ch]
  ELSE ch

Lowercase(str) == [i \in 1..Len(str) |-> LowerChar(str[i])]

Uppercase(str) == [i \in 1..Len(str) |-> UpperChar(str[i])]

\* six hexadecimal digits in mixed case
SixDigitSamples == {
  <<"3", "B", "8", "2", "f", "6">>,
  <<"a", "B", "c", "D", "e", "F">>,
  <<"0", "a", "1", "B", "2", "c">>,
  <<"d", "7", "2", "8", "9", "1">>,
  <<"F", "f", "0", "0", "9", "E">> }

\* each sample as written, in capitals and in small letters, with and without '#'
Spellings(h) ==
  {h, Uppercase(h), Lowercase(h),
   <<"#">> \o h, <<"#">> \o Uppercase(h), <<"#">> \o Lowercase(h)}

InitCase ==
  /\ LIGHTNESS_STOPS = LightnessStopTable
  /\ input \in UNION {Spellings(h) : h \in SixDigitSamples}
  /\ call = NoCall
  /\ log = <<>>
  /\ frames = <<>>

NextCase ==
  \/ HexToRgb
  \/ GenerateColorScale

SpecCase == InitCase /\ [][NextCase]_vars

(***************************************************************************)
(* rgbToHex then hexToRgb on bytes, hexToRgb then rgbToHex on strings      *)
(***************************************************************************)
\* every byte as the first channel and as a grey, and triples of bytes with one digit,
\* with letters and with both
ByteTriples ==
  {<<v, 171, 9>> : v \in 0..255} \cup {<<v, v, v>> : v \in 0..255}
    \cup [1..3 -> {0, 10, 15, 16, 171, 255}]

InitHexRoundTrip ==
  /\ LIGHTNESS_STOPS = LightnessStopTable
  /\ input \in ByteTriples \cup UNION {Spellings(h) : h \in SixDigitSamples}
  /\ call = NoCall
  /\ log = <<>>
  /\ frames = <<>>

\* a caller invokes rgbToHex(r, g, b) on three bytes
EncodeBytes ==
  /\ call.fn = "none"
  /\ Len(input) = 3
  /\ call' = Returned("rgbToHex", input, rgbToHex(input[1], input[2], input[3]))
  /\ UNCHANGED <<LIGHTNESS_STOPS, input, log, frames>>

\* the caller passes the string returned to hexToRgb
ParseEncoded ==
  /\ call.fn = "rgbToHex"
  /\ Len(input) = 3
  /\ call' = Returned("hexToRgb", call.ret, hexToRgb(call.ret))
  /\ UNCHANGED <<LIGHTNESS_STOPS, input, log, frames>>

\* a caller invokes hexToRgb(hex) on a string of six hexadecimal digits
ParseString ==
  /\ call.fn = "none"
  /\ Len(input) > 3
  /\ call' = Returned("hexToRgb", input, hexToRgb(input))
  /\ UNCHANGED <<LIGHTNESS_STOPS, input, log, frames>>

\* the caller passes the three numbers returned to rgbToHex
EncodeParsed ==
  /\ call.fn = "hexToRgb"
  /\ Len(input) > 3
  /\ call' = Returned("rgbToHex", call.ret, rgbToHex(call.ret[1], call.ret[2], call.ret[3]))
  /\ UNCHANGED <<LIGHTNESS_STOPS, input, log, frames>>

SpecHexRoundTrip ==
  InitHexRoundTrip /\ [][EncodeBytes \/ ParseEncoded \/ ParseString \/ EncodeParsed]_vars

(***************************************************************************)
(* oklchToRgb and linearToSrgb inside and outside the sRGB gamut           *)
(***************************************************************************)
\* lightness, chroma and hue given to oklchToRgb: the table's extremes, values below 0
\* and above 1, chroma that no sRGB colour has
GamutL == {-20 * Centi, 0, 14 * Centi, 55 * Centi, 97 * Centi, Scale, 110 * Centi}

GamutC == {0, 1 * Centi, 15 * Centi, 40 * Centi}

GamutH == {0, 25 * HueScale, 90 * HueScale, 145 * HueScale, 250 * HueScale,
           359 * HueScale, 400 * HueScale, -30 * HueScale}

\* linear channel values given to linearToSrgb
LinearSamples == {-Scale, -1, 0, 1, 313080, 313081, 50 * Centi, Scale - 1, Scale,
                  Scale + 1, 2 * Scale}

InitGamut ==
  /\ LIGHTNESS_STOPS = LightnessStopTable
  /\ input \in (GamutL \X GamutC \X GamutH) \cup {<<c>> : c \in LinearSamples}
  /\ call = NoCall
  /\ log = <<>>
  /\ frames = <<>>

\* a caller invokes oklchToRgb(L, C, H)
OklchToRgbOfInput ==
  /\ Len(input) = 3
  /\ call' = Returned("oklchToRgb", input, oklchToRgb(input[1], input[2], input[3]))
  /\ UNCHANGED <<LIGHTNESS_STOPS, input, log, frames>>

\* oklchToRgb invokes linearToSrgb(c)
LinearToSrgb ==
  /\ Len(input) = 1
  /\ call' = Returned("linearToSrgb", input, linearToSrgb(input[1]))
  /\ UNCHANGED <<LIGHTNESS_STOPS, input, log, frames>>

NextGamut ==
  \/ OklchToRgbOfInput
  \/ LinearToSrgb

SpecGamut == InitGamut /\ [][NextGamut]_vars

(***************************************************************************)
(* rgbToHsl on byte triples and on every grey                              *)
(***************************************************************************)
InitHsl ==
  /\ LIGHTNESS_STOPS = LightnessStopTable
  /\ input \in [1..3 -> ByteSamples] \cup {<<v, v, v>> : v \in 0..255}
  /\ call = NoCall
  /\ log = <<>>
  /\ frames = <<>>

\* a caller invokes rgbToHsl(r, g, b)
RgbToHsl ==
  /\ call' = Returned("rgbToHsl", input, rgbToHsl(input[1], input[2], input[3]))
  /\ UNCHANGED <<LIGHTNESS_STOPS, input, log, frames>>

NextHsl == RgbToHsl

SpecHsl == InitHsl /\ [][NextHsl]_vars

(***************************************************************************)
(* formatColor on generated stops, in every format                         *)
(***************************************************************************)
\* the formats of ColorFormat, and a string that is none of them
Formats == {"oklch", "hsl", "rgb", "hex", "cmyk"}

InitFormat ==
  /\ LIGHTNESS_STOPS = LightnessStopTable
  /\ input \in [stop : {generateColorScale(hex)[i] : i \in 1..11,
                                                     hex \in {UsageHex, NotAColor}},
                format : Formats]
  /\ call = NoCall
  /\ log = <<>>
  /\ frames = <<>>

\* a caller invokes formatColor(stop, format)
FormatColor ==
  /\ call' = Returned("formatColor", input, formatColor(input.stop, input.format))
  /\ UNCHANGED <<LIGHTNESS_STOPS, input, log, frames>>

NextFormat == FormatColor

SpecFormat == InitFormat /\ [][NextFormat]_vars

(***************************************************************************)
(* Two callers that run generators side by side, one statement at a time   *)
(***************************************************************************)
Callers == {"A", "B"}

\* the object literal of generateSemanticColors, property by property
SemanticPlan == <<
  [key |-> "success", baseHue |-> 145 * HueScale, influence |-> 10 * Centi],
  [key |-> "warning", baseHue |-> 70 * HueScale, influence |-> 10 * Centi],
  [key |-> "error", baseHue |-> 25 * HueScale, influence |-> 8 * Centi],
  [key |-> "info", baseHue |-> 250 * HueScale, influence |-> 15 * Centi] >>

\* a caller that has not yet invoked its function
IdleFrame ==
  [pc |-> "idle", hex |-> <<>>, C |-> 0, H |-> 0, i |-> 0, stops |-> <<>>,
   plan |-> <<>>, scales |-> <<>>, ret |-> <<>>]

InitConcurrent ==
  /\ LIGHTNESS_STOPS = LightnessStopTable
  /\ input \in {[c \in Callers |-> IF c = "A" THEN a ELSE b] :
       a \in {[fn |-> f, hex |-> UsageHex] :
                f \in {"generateColorScale", "generateNeutralScale", "generateSemanticColors"}},
       b \in {[fn |-> f, hex |-> <<"#", "d", "7", "2", "8", "9", "1">>] :
                f \in {"generateColorScale", "generateNeutralScale"}}}
  /\ call = NoCall
  /\ log = <<>>
  /\ frames = [c \in Callers |-> IdleFrame]

\* the statement caller c executes next; it depends on c's own position and on the
\* length of the table, never on another caller
NextStatement(c) ==
  CASE frames[c].pc = "idle" -> "Begin"
    [] frames[c].pc = "derive" -> "Derive"
    [] frames[c].pc = "convert" -> "Convert"
    [] frames[c].pc = "map" /\ frames[c].i <= Len(LIGHTNESS_STOPS) -> "MapCallback"
    [] frames[c].pc = "map" /\ frames[c].i > Len(LIGHTNESS_STOPS) -> "ReturnScale"
    [] OTHER -> "none"

\* caller c invokes its function
Begin(c) ==
  /\ NextStatement(c) = "Begin"
  /\ frames' = [frames EXCEPT ![c] =
       IF input[c].fn = "generateColorScale"
       THEN [@ EXCEPT !.pc = "convert", !.hex = input[c].hex]
       ELSE [@ EXCEPT !.pc = "derive",
                      !.plan = IF input[c].fn = "generateSemanticColors"
                               THEN SemanticPlan ELSE <<>>]]
  /\ UNCHANGED <<LIGHTNESS_STOPS, input, call, log>>

\* generateNeutralScale's neutralHex, or generateHarmonizedSemantic for the next
\* property of generateSemanticColors: the hex string passed to generateColorScale
Derive(c) ==
  /\ NextStatement(c) = "Derive"
  /\ frames' = [frames EXCEPT ![c] = [@ EXCEPT
       !.pc = "convert",
       !.hex = IF input[c].fn = "generateNeutralScale"
               THEN With(hexToRgb(input[c].hex), LAMBDA rgb :
                    With(rgbToOklch(rgb[1], rgb[2], rgb[3]), LAMBDA lch :
                    With(oklchToRgb(55 * Centi, 1 * Centi, lch[3]), LAMBDA n :
                      rgbToHex(n[1], n[2], n[3]))))
               ELSE generateHarmonizedSemantic(input[c].hex, Head(frames[c].plan).baseHue,
                                               Head(frames[c].plan).influence).hex]]
  /\ UNCHANGED <<LIGHTNESS_STOPS, input, call, log>>

\* Convert with the table put in ascending lightness in place before it is mapped
Convert_Reversing(c) ==
  /\ NextStatement(c) = "Convert"
  /\ frames' = [frames EXCEPT ![c] =
       With(hexToRgb(@.hex), LAMBDA rgb :
       With(rgbToOklch(rgb[1], rgb[2], rgb[3]), LAMBDA lch :
         [@ EXCEPT !.pc = "map", !.C = lch[2], !.H = lch[3], !.i = 1, !.stops = <<>>]))]
  /\ LIGHTNESS_STOPS' = [i \in 1..Len(LIGHTNESS_STOPS) |->
                           LIGHTNESS_STOPS[Len(LIGHTNESS_STOPS) + 1 - i]]
  /\ UNCHANGED <<input, call, log>>

\* generateColorScale's first two statements: the locals C and H
Convert(c) ==
  /\ NextStatement(c) = "Convert"
  /\ frames' = [frames EXCEPT ![c] =
       With(hexToRgb(@.hex), LAMBDA rgb :
       With(rgbToOklch(rgb[1], rgb[2], rgb[3]), LAMBDA lch :
         [@ EXCEPT !.pc = "map", !.C = lch[2], !.H = lch[3], !.i = 1, !.stops = <<>>]))]
  /\ UNCHANGED <<LIGHTNESS_STOPS, input, call, log>>

\* one call of the map callback: it reads one element of LIGHTNESS_STOPS
MapCallback(c) ==
  /\ NextStatement(c) = "MapCallback"
  /\ frames' = [frames EXCEPT ![c] = [@ EXCEPT
       !.stops = Append(@, ColorStopOf(LIGHTNESS_STOPS[frames[c].i], frames[c].C, frames[c].H)),
       !.i = @ + 1]]
  /\ UNCHANGED <<LIGHTNESS_STOPS, input, call, log>>

\* what caller c returns once its last scale is complete
ReturnValue(c, scales) ==
  IF input[c].fn = "generateSemanticColors"
  THEN [success |-> scales[1], warning |-> scales[2], error |-> scales[3], info |-> scales[4]]
  ELSE scales[1]

\* generateColorScale returns its array: to the caller, or to generateSemanticColors,
\* which goes on with its next property
ReturnScale(c) ==
  /\ NextStatement(c) = "ReturnScale"
  /\ LET scales == Append(frames[c].scales, frames[c].stops)
     IN IF Len(frames[c].plan) > 1
        THEN /\ frames' = [frames EXCEPT ![c] = [@ EXCEPT
                  !.pc = "derive", !.plan = Tail(@), !.scales = scales]]
             /\ UNCHANGED <<call, log>>
        ELSE /\ frames' = [frames EXCEPT ![c] = [@ EXCEPT
                  !.pc = "done", !.plan = <<>>, !.scales = scales,
                  !.ret = ReturnValue(c, scales)]]
             /\ call' = Returned(input[c].fn, input[c].hex, ReturnValue(c, scales))
             /\ log' = Append(log, call')
  /\ UNCHANGED <<LIGHTNESS_STOPS, input>>

\* the next statement of caller c
Step(c) ==
  \/ Begin(c)
  \/ Derive(c)
  \/ Convert(c)
  \/ MapCallback(c)
  \/ ReturnScale(c)

NextConcurrent == \E c \in Callers : Step(c)

SpecConcurrent == InitConcurrent /\ [][NextConcurrent]_vars

(***************************************************************************)
(* Callers that write to the values the generators returned to them        *)
(***************************************************************************)
\* the writes a caller makes: to the step of the first ColorStop it holds, or to the
\* first number of the oklch tuple of the last one
Mutations == {[k |-> 1, field |-> "step"], [k |-> 11, field |-> "oklch"]}

Mutated(stop, field) ==
  IF field = "step" THEN [stop EXCEPT !.step = 0] ELSE [stop EXCEPT !.oklch[1] = 0]

InitMutate ==
  /\ LIGHTNESS_STOPS = LightnessStopTable
  /\ input \in {UsageHex, NotAColor}
  /\ call = NoCall
  /\ log = <<>>
  /\ frames = <<>>

\* MutateReturned on ColorStops that are the elements of the table themselves
MutateReturned_Aliased ==
  /\ Len(log) < MaxCalls
  /\ call.fn # "none"
  /\ \E m \in Mutations :
       /\ call' = [call EXCEPT !.ret =
            IF call.fn = "generateSemanticColors"
            THEN [@ EXCEPT !.success[m.k] = Mutated(@, m.field)]
            ELSE [@ EXCEPT ![m.k] = Mutated(@, m.field)]]
       /\ log' = Append(log, Returned("mutation", m, call'.ret))
       /\ LIGHTNESS_STOPS' = [LIGHTNESS_STOPS EXCEPT ![m.k] =
            IF m.field = "step" THEN [@ EXCEPT !.step = 0] ELSE [@ EXCEPT !.L = 0]]
  /\ UNCHANGED <<input, frames>>

\* the caller writes to a ColorStop of the value it was returned: each ColorStop and
\* each of its tuples is an object the map callback created, so nothing else changes
MutateReturned ==
  /\ Len(log) < MaxCalls
  /\ call.fn # "none"
  /\ \E m \in Mutations :
       /\ call' = [call EXCEPT !.ret =
            IF call.fn = "generateSemanticColors"
            THEN [@ EXCEPT !.success[m.k] = Mutated(@, m.field)]
            ELSE [@ EXCEPT ![m.k] = Mutated(@, m.field)]]
       /\ log' = Append(log, Returned("mutation", m, call'.ret))
  /\ UNCHANGED <<LIGHTNESS_STOPS, input, frames>>

NextMutate ==
  \/ GenerateColorScale
  \/ GenerateNeutralScale
  \/ GenerateSemanticColors
  \/ MutateReturned

\* the generators and the caller's writes, in any order
SpecMutate == InitMutate /\ [][NextMutate]_vars

(***************************************************************************)
(* generateColorScale on two base colours                                  *)
(***************************************************************************)
\* greys of several lightnesses and two chromatic colours
BaseColors == {
  <<"#", "1", "0", "1", "0", "1", "0">>,
  <<"#", "2", "2", "2", "2", "2", "2">>,
  <<"#", "3", "3", "3", "3", "3", "3">>,
  <<"#", "6", "6", "6", "6", "6", "6">>,
  <<"#", "8", "0", "8", "0", "8", "0">>,
  UsageHex,
  <<"#", "d", "7", "2", "8", "9", "1">> }

InitLightness ==
  /\ LIGHTNESS_STOPS = LightnessStopTable
  /\ input \in {p \in BaseColors \X BaseColors : p[1] # p[2]}
  /\ call = NoCall
  /\ log = <<>>
  /\ frames = <<>>

\* a caller invokes generateColorScale on the n-th of the two colours, once
ScaleOf(n) ==
  /\ \A i \in 1..Len(log) : log[i].args # input[n]
  /\ call' = Returned("generateColorScale", input[n], generateColorScale(input[n]))
  /\ log' = Append(log, call')
  /\ UNCHANGED <<LIGHTNESS_STOPS, input, frames>>

NextLightness ==
  \/ ScaleOf(1)
  \/ ScaleOf(2)

SpecLightness == InitLightness /\ [][NextLightness]_vars

(***************************************************************************)
(* The generators on a grid of brand colours                               *)
(***************************************************************************)
\* the colours of the grid, two dark greys and a string that is no colour
BrandColors ==
  {rgbToHex(r, g, b) : r \in {59, 130, 246}, g \in {59, 130, 246}, b \in {59, 130, 246}}
    \cup {<<"#", "2", "2", "2", "2", "2", "2">>,
          <<"#", "3", "3", "3", "3", "3", "3">>,
          NotAColor}

InitBrand ==
  /\ LIGHTNESS_STOPS = LightnessStopTable
  /\ input \in BrandColors
  /\ call = NoCall
  /\ log = <<>>
  /\ frames = <<>>

\* a caller invokes generateColorScale(input)
ColorScaleOfBrand ==
  /\ call' = Returned("generateColorScale", input, generateColorScale(input))
  /\ UNCHANGED <<LIGHTNESS_STOPS, input, log, frames>>

\* a caller invokes generateNeutralScale(input)
NeutralScaleOfBrand ==
  /\ call' = Returned("generateNeutralScale", input, generateNeutralScale(input))
  /\ UNCHANGED <<LIGHTNESS_STOPS, input, log, frames>>

\* a caller invokes generateSemanticColors(input)
SemanticColorsOfBrand ==
  /\ call' = Returned("generateSemanticColors", input, generateSemanticColors(input))
  /\ UNCHANGED <<LIGHTNESS_STOPS, input, log, frames>>

NextBrand ==
  \/ ColorScaleOfBrand
  \/ NeutralScaleOfBrand
  \/ SemanticColorsOfBrand

SpecBrand == InitBrand /\ [][NextBrand]_vars

(***************************************************************************)
(* The spacing and the type scale generators and their JSON output         *)
(***************************************************************************)
\* steps of generateSpacingScale
MaxSteps == 14

\* stepsUp and stepsDown of generateTypeScale
MaxStepsUp == 12

MaxStepsDown == 5

\* stepsUp with the ratios whose powers grow fastest
MaxFineStepsUp == 5

\* 1 and 2; 1.25 (tight, Major Third) and 1.5 (balanced, Perfect Fifth)
WideRatios == {<<1, 1>>, <<2, 1>>}

FineRatios == {<<5, 4>>, <<3, 2>>}

\* font sizes at and around the thresholds of calculateLineHeight
FontSizes ==
  {1 * Milli, 13990, 14 * Milli, 14004, 14010, 18 * Milli, 18010, 24 * Milli, 24010,
   32 * Milli, 32010, 48 * Milli, 48010, 96 * Milli}

\* generateTypeScale(16, 1.25, 6, 2, 'px')
UsageTypeScale ==
  [fn |-> "generateTypeScale", baseSize |-> 16 * Milli, ratio |-> <<5, 4>>,
   stepsUp |-> 6, stepsDown |-> 2, unit |-> <<"p", "x">>]

\* base values 4 and 8 (px), 0.125 and 0.25 (rem); the call of the usage comment,
\* generateSpacingScale(4, 1.5, 10, 'px', 'tshirt'), is among them
SpacingInputs ==
  [fn : {"generateSpacingScale"}, baseValue : {4 * Milli, 8 * Milli, 125, 250},
   ratio : WideRatios \cup FineRatios, steps : 0..MaxSteps,
   unit : {<<"p", "x">>, <<"r", "e", "m">>},
   namingStyle : {"tshirt", "numeric"}]

\* base sizes 16 and 14 (px), 14.004 and 1 (rem); the ratios whose powers grow fastest
\* with at most MaxFineStepsUp steps above base
TypeInputs ==
  {UsageTypeScale} \cup
  {t \in [fn : {"generateTypeScale"}, baseSize : {16 * Milli, 14 * Milli, 14004, 1 * Milli},
          ratio : WideRatios \cup FineRatios, stepsUp : 0..MaxStepsUp,
          stepsDown : 0..MaxStepsDown, unit : {<<"p", "x">>, <<"r", "e", "m">>}] :
     t.ratio \in FineRatios => t.stepsUp <= MaxFineStepsUp}

InitTokens ==
  /\ LIGHTNESS_STOPS = LightnessStopTable
  /\ input \in SpacingInputs \cup TypeInputs
                 \cup [fn : {"calculateLineHeight"}, fontSize : FontSizes]
  /\ call = NoCall
  /\ log = <<>>
  /\ frames = <<>>

\* a caller invokes generateSpacingScale
GenerateSpacingScale ==
  /\ call.fn = "none"
  /\ input.fn = "generateSpacingScale"
  /\ call' = Returned("generateSpacingScale", input,
       generateSpacingScale(input.baseValue, input.ratio, input.steps, input.unit,
                            input.namingStyle))
  /\ UNCHANGED <<LIGHTNESS_STOPS, input, log, frames>>

\* the caller passes the tokens returned to generateJSON of the spacing scale
GenerateSpacingJSON ==
  /\ call.fn = "generateSpacingScale"
  /\ call' = Returned("generateJSON", call.ret,
       generateSpacingJSON(call.ret, <<"s", "p", "a", "c", "i", "n", "g">>))
  /\ UNCHANGED <<LIGHTNESS_STOPS, input, log, frames>>

\* a caller invokes generateTypeScale
GenerateTypeScale ==
  /\ call.fn = "none"
  /\ input.fn = "generateTypeScale"
  /\ call' = Returned("generateTypeScale", input,
       generateTypeScale(input.baseSize, input.ratio, input.stepsUp, input.stepsDown,
                         input.unit))
  /\ UNCHANGED <<LIGHTNESS_STOPS, input, log, frames>>

\* the caller passes the tokens returned to generateJSON of the type scale
GenerateTypeJSON ==
  /\ call.fn = "generateTypeScale"
  /\ call' = Returned("generateJSON", call.ret, generateTypeJSON(call.ret, <<"t", "e", "x", "t">>))
  /\ UNCHANGED <<LIGHTNESS_STOPS, input, log, frames>>

\* a caller invokes calculateLineHeight
CalculateLineHeight ==
  /\ call.fn = "none"
  /\ input.fn = "calculateLineHeight"
  /\ call' = Returned("calculateLineHeight", input, calculateLineHeight(input.fontSize))
  /\ UNCHANGED <<LIGHTNESS_STOPS, input, log, frames>>

NextTokens ==
  \/ GenerateSpacingScale
  \/ GenerateSpacingJSON
  \/ GenerateTypeScale
  \/ GenerateTypeJSON
  \/ CalculateLineHeight

SpecTokens == InitTokens /\ [][NextTokens]_vars

(***************************************************************************)
(* Properties of the generators, checked under Spec                        *)
(***************************************************************************)
ExpectedSteps == <<50, 100, 200, 300, 400, 500, 600, 700, 800, 900, 950>>

\* the stops of a scale in ascending step order have strictly decreasing oklch.L
DecreasingL(scale) ==
  \A i \in 1..(Len(scale) - 1) :
    /\ scale[i].step < scale[i + 1].step
    /\ scale[i + 1].oklch[1] < scale[i].oklch[1]

\* a scale has the eleven steps 50, 100, ..., 900, 950 in this order
ElevenSteps(scale) ==
  /\ DOMAIN scale = 1..11
  /\ \A i \in 1..11 : scale[i].step = ExpectedSteps[i]

LowerHexChars == {HexDigits[i] : i \in 1..16}

\* matches /^#[0-9a-f]{6}$/
IsLowerHexColor(str) ==
  /\ Len(str) = 7
  /\ str[1] = "#"
  /\ \A i \in 2..7 : str[i] \in LowerHexChars

\* the stop of a scale with the given step
StopAt(scale, step) == scale[CHOOSE i \in DOMAIN scale : scale[i].step = step]

\* C1: for every input string, well formed or malformed, the stops that
\* generateColorScale returns, in ascending step order, have strictly decreasing
\* oklch.L over all 10 adjacent pairs.
C1_MonotonicLightness ==
  call.fn = "generateColorScale" =>
    /\ Len(call.ret) - 1 = 10
    /\ DecreasingL(call.ret)

\* generateColorScale has returned eleven stops for a malformed input
C1_Witness ==
  /\ call.fn = "generateColorScale"
  /\ input = NotAColor
  /\ Len(call.ret) = 11

\* C2: for every input string generateColorScale returns exactly 11 stops with the
\* steps 50, 100, 200, ..., 900, 950 in that order, and every stop's hex is '#'
\* followed by exactly six characters of 0-9a-f.
C2_ElevenStopsLowerHex ==
  call.fn = "generateColorScale" =>
    /\ ElevenSteps(call.ret)
    /\ \A i \in DOMAIN call.ret : IsLowerHexColor(call.ret[i].hex)

\* a returned stop has a channel below 16, whose hexadecimal form has one digit
C2_Witness ==
  /\ call.fn = "generateColorScale"
  /\ input = UsageHex
  /\ \E i \in DOMAIN call.ret : \E c \in 1..3 : call.ret[i].rgb[c] \in 1..15

\* C5: two invocations of generateColorScale with the same input string, in any
\* order and with any other invocations in between, return identical stop
\* sequences (hex and every other field).
C5_Deterministic ==
  \A i, j \in DOMAIN log :
    (/\ log[i].fn = "generateColorScale"
     /\ log[j].fn = "generateColorScale"
     /\ log[i].args = log[j].args) => log[i].ret = log[j].ret

\* generateColorScale, another generator, generateColorScale again
C5_Witness ==
  /\ Len(log) = 3
  /\ log[1].fn = "generateColorScale"
  /\ log[2].fn = "generateSemanticColors"
  /\ log[3].fn = "generateColorScale"

\* the OKLCH chroma of the colour hexToRgb reads from a string
BaseChroma(hex) == With(hexToRgb(hex), LAMBDA rgb : rgbToOklch(rgb[1], rgb[2], rgb[3])[2])

\* C6: for every brand hex of positive OKLCH chroma (#3B82F6 among them) the chroma of
\* stop 50 and the chroma of stop 950 are each strictly less than the chroma of stop
\* 500, and the chroma of stop 500 is the chroma of the base colour.
C6_ChromaCompensation ==
  (call.fn = "generateColorScale" /\ BaseChroma(input) > 0) =>
    /\ StopAt(call.ret, 50).oklch[2] < StopAt(call.ret, 500).oklch[2]
    /\ StopAt(call.ret, 950).oklch[2] < StopAt(call.ret, 500).oklch[2]
    /\ StopAt(call.ret, 500).oklch[2] = BaseChroma(input)

\* the scale of #3B82F6, whose chroma is positive
C6_Witness ==
  /\ call.fn = "generateColorScale"
  /\ input = UsageHex
  /\ BaseChroma(input) > 0
  /\ StopAt(call.ret, 50).oklch[2] > 0

\* what a generator returns for "#000000"
ResultForBlack(fn) ==
  CASE fn = "generateColorScale" -> generateColorScale(BlackHex)
    [] fn = "generateNeutralScale" -> generateNeutralScale(BlackHex)
    [] fn = "generateSemanticColors" -> generateSemanticColors(BlackHex)

\* C9: for every malformed hex string generateColorScale, generateNeutralScale and
\* generateSemanticColors return a value, and it is the value they return for
\* "#000000".
C9_MalformedIsBlack ==
  (call.fn \in {"generateColorScale", "generateNeutralScale", "generateSemanticColors"}
     /\ input \in MalformedExamples) =>
    call.ret = ResultForBlack(call.fn)

\* the three generators have returned for one malformed string
C9_Witness ==
  /\ input = NotAColor
  /\ Len(log) = 3
  /\ {log[i].fn : i \in 1..3} =
       {"generateColorScale", "generateNeutralScale", "generateSemanticColors"}

\* C10: for every brand input string generateSemanticColors returns a mapping with
\* exactly the keys success, warning, error and info, each an 11-stop scale with the
\* steps 50, ..., 950 in order and strictly decreasing oklch.L.
C10_SemanticScales ==
  call.fn = "generateSemanticColors" =>
    /\ DOMAIN call.ret = {"success", "warning", "error", "info"}
    /\ \A k \in DOMAIN call.ret :
         /\ ElevenSteps(call.ret[k])
         /\ DecreasingL(call.ret[k])

\* generateSemanticColors has returned four different scales for #3B82F6
C10_Witness ==
  /\ call.fn = "generateSemanticColors"
  /\ input = UsageHex
  /\ Cardinality({call.ret[k][6].hex : k \in DOMAIN call.ret}) = 4

(***************************************************************************)
(* Properties of the conversions                                           *)
(***************************************************************************)
\* C3: for every RGB triple of integers in 0..255, oklchToRgb(rgbToOklch(r, g, b))
\* differs from (r, g, b) by at most 1 in each channel.
C3_RoundTrip ==
  call.fn = "oklchToRgb" => \A i \in 1..3 : Abs(call.ret[i] - input[i]) <= 1

\* the round trip of a saturated colour has returned
C3_Witness ==
  /\ call.fn = "oklchToRgb"
  /\ input = <<255, 0, 128>>
  /\ call.args[2] > 0

\* the distance of two hues on the circle of 360 degrees
HueDistance(p, q) == LET d == Abs(p - q) IN Min2(d, 360 * HueScale - d)

\* hue x lies on the shorter arc between the hues p and q
OnShorterArc(x, p, q) == HueDistance(p, x) + HueDistance(x, q) = HueDistance(p, q)

\* C4: for any brand hue and base hue in [0, 360) and influence in [0, 1], the
\* normalized blended hue of generateHarmonizedSemantic lies on the shorter arc
\* between the base hue and the brand hue; for brand hue 350, base hue 10 and
\* influence 0.5 it lies in [350, 360) or [0, 10], not at 180.
C4_ShorterArc ==
  call.fn = "generateHarmonizedSemantic" =>
    OnShorterArc(call.ret.normalizedHue, input.baseHue, call.ret.brandH)

\* exactly six hexadecimal digits
IsSixHexDigits(str) ==
  /\ Len(str) = 6
  /\ \A i \in 1..6 : str[i] \in LowerHexChars \cup {"A", "B", "C", "D", "E", "F"}

\* exactly six hexadecimal digits, optionally preceded by one '#'
IsHexColor(str) ==
  \/ IsSixHexDigits(str)
  \/ Len(str) = 7 /\ str[1] = "#" /\ IsSixHexDigits(Tail(str))

\* C7: hexToRgb returns (0, 0, 0) for every string that is not exactly six
\* hexadecimal digits optionally preceded by one '#'.
C7_MalformedFallback ==
  (call.fn = "hexToRgb" /\ ~IsHexColor(input)) => call.ret = <<0, 0, 0>>

\* hexToRgb has returned for eight digits after the '#'
C7_Witness ==
  /\ call.fn = "hexToRgb"
  /\ input = <<"#", "3", "B", "8", "2", "F", "6", "F", "F">>
  /\ ~IsHexColor(input)

\* the two lowercase hexadecimal digits of a value in 0..255
TwoDigitHex(v) == <<HexDigits[(v \div 16) + 1], HexDigits[(v % 16) + 1]>>

\* min(255, max(0, x))
Clamped(x) == IF x < 0 THEN 0 ELSE IF x > 255 THEN 255 ELSE x

\* C8: for all integers r, g, b, below 0 and above 255 included, rgbToHex(r, g, b)
\* is '#' followed by the two-digit lowercase hex encoding of min(255, max(0, x)) of
\* each channel in the order r, g, b; rgbToHex(300, -10, 128) = "#ff0080".
C8_ClampedHex ==
  call.fn = "rgbToHex" =>
    /\ call.ret = <<"#">> \o TwoDigitHex(Clamped(input[1]))
                         \o TwoDigitHex(Clamped(input[2]))
                         \o TwoDigitHex(Clamped(input[3]))
    /\ input = <<300, -10, 128>> => call.ret = <<"#", "f", "f", "0", "0", "8", "0">>

\* rgbToHex(300, -10, 128) has returned
C8_Witness ==
  /\ call.fn = "rgbToHex"
  /\ input = <<300, -10, 128>>

\* the value of one hexadecimal digit, small or capital
NibbleOf(ch) ==
  CASE ch = "0" -> 0 [] ch = "1" -> 1 [] ch = "2" -> 2 [] ch = "3" -> 3
    [] ch = "4" -> 4 [] ch = "5" -> 5 [] ch = "6" -> 6 [] ch = "7" -> 7
    [] ch = "8" -> 8 [] ch = "9" -> 9
    [] ch \in {"a", "A"} -> 10 [] ch \in {"b", "B"} -> 11 [] ch \in {"c", "C"} -> 12
    [] ch \in {"d", "D"} -> 13 [] ch \in {"e", "E"} -> 14 [] ch \in {"f", "F"} -> 15

\* a string without its leading '#', if it has one
WithoutHash(str) == IF Len(str) > 0 /\ str[1] = "#" THEN Tail(str) ELSE str

\* the three bytes that the digit pairs of six hexadecimal digits encode
BytesOf(h) == [c \in 1..3 |-> 16 * NibbleOf(h[2 * c - 1]) + NibbleOf(h[2 * c])]

\* C11: for every six-digit hexadecimal string h, hexToRgb(h), hexToRgb('#' + h),
\* hexToRgb(uppercase(h)) and hexToRgb(lowercase(h)) are the triple of the bytes that
\* the digit pairs encode; generateColorScale returns the same scale for inputs that
\* differ only in case or in the presence of '#'.
C11_CaseAndHash ==
  /\ call.fn = "hexToRgb" => call.ret = BytesOf(WithoutHash(input))
  /\ call.fn = "generateColorScale" =>
       call.ret = generateColorScale(<<"#">> \o Lowercase(WithoutHash(input)))

\* both functions have returned for a spelling in capitals without '#'
C11_Witness ==
  /\ input = <<"A", "B", "C", "D", "E", "F">>
  /\ Len(log) > 0
  /\ call.fn = "hexToRgb"
  /\ call.ret = <<171, 205, 239>>

\* C12: for every (L, C, H), out-of-gamut combinations included, each channel that
\* oklchToRgb returns is an integer in [0, 255]; linearToSrgb yields 0 for any input
\* <= 0 and 255 for any input >= 1.  (L in [-0.2, 1.1], C in [0, 0.4], any H.)
C12_ValidBytes ==
  /\ call.fn = "oklchToRgb" => \A i \in 1..3 : call.ret[i] \in 0..255
  /\ call.fn = "linearToSrgb" =>
       /\ call.ret \in 0..255
       /\ input[1] <= 0 => call.ret = 0
       /\ input[1] >= Scale => call.ret = 255

\* oklchToRgb has returned a colour with one channel clamped to 0 and one to 255
C12_Witness ==
  /\ call.fn = "oklchToRgb"
  /\ input[2] = 40 * Centi
  /\ \E i, j \in 1..3 : call.ret[i] = 0 /\ call.ret[j] = 255

\* C13: for every RGB triple of integers in 0..255, rgbToHsl returns three integers
\* with hue in [0, 360), 360 itself excluded, saturation in [0, 100] and lightness in
\* [0, 100].
C13_HslRanges ==
  call.fn = "rgbToHsl" =>
    /\ call.ret[1] \in 0..359
    /\ call.ret[2] \in 0..100
    /\ call.ret[3] \in 0..100

\* C15: for every achromatic RGB triple (r = g = b in 0..255), rgbToHsl returns hue 0
\* and saturation 0, with lightness round(100 * r / 255).
C15_Achromatic ==
  (call.fn = "rgbToHsl" /\ input[1] = input[2] /\ input[2] = input[3]) =>
    /\ call.ret[1] = 0
    /\ call.ret[2] = 0
    /\ 2 * Abs(255 * call.ret[3] - 100 * input[1]) < 255

\* rgbToHsl has returned for a grey whose lightness rounds up
C15_Witness ==
  /\ call.fn = "rgbToHsl"
  /\ input = <<2, 2, 2>>
  /\ call.ret[3] = 1

\* the stops of what a generator returned: of its scale, or of its four scales
StopsOf(c) ==
  IF c.fn = "generateSemanticColors"
  THEN UNION {{c.ret[k][i] : i \in DOMAIN c.ret[k]} : k \in DOMAIN c.ret}
  ELSE {c.ret[i] : i \in DOMAIN c.ret}

\* C14: every ColorStop that generateColorScale, generateNeutralScale or
\* generateSemanticColors emits has oklch = (L, C, H) with L in [0, 1], C >= 0 and H in
\* [0, 360), for every input string; the hue is the one rgbToOklch returned.
C14_OklchRanges ==
  call.fn \in {"generateColorScale", "generateNeutralScale", "generateSemanticColors"} =>
    \A stop \in StopsOf(call) :
      /\ 0 <= stop.oklch[1] /\ stop.oklch[1] <= Scale
      /\ 0 <= stop.oklch[2]
      /\ 0 <= stop.oklch[3] /\ stop.oklch[3] < 360 * HueScale

\* a scale of #3B82F6, whose hue lies in the lower half plane (b < 0)
C14_Witness ==
  /\ call.fn = "generateColorScale"
  /\ input = UsageHex
  /\ \A stop \in StopsOf(call) : stop.oklch[3] > 180 * HueScale

\* the pieces of a string between its single spaces
RECURSIVE SplitOnSpace(_)
SplitOnSpace(str) ==
  IF \A i \in 1..Len(str) : str[i] # " " THEN <<str>>
  ELSE LET i == CHOOSE k \in 1..Len(str) : str[k] = " " /\ \A j \in 1..(k - 1) : str[j] # " "
       IN <<SubSeq(str, 1, i - 1)>> \o SplitOnSpace(SubSeq(str, i + 1, Len(str)))

IsDigits(str) == \A i \in 1..Len(str) : \E d \in 1..10 : DecimalDigits[d] = str[i]

\* the decimal numeral of a natural number: digits, no zero in front of another digit
IsNat(str) == Len(str) > 0 /\ IsDigits(str) /\ (Len(str) = 1 \/ str[1] # "0")

\* the number a string of digits denotes
RECURSIVE NatOf(_)
NatOf(str) ==
  IF Len(str) = 0 THEN 0
  ELSE 10 * NatOf(SubSeq(str, 1, Len(str) - 1))
         + (CHOOSE d \in 0..9 : DecimalDigits[d + 1] = str[Len(str)])

\* a numeral with exactly f digits after its point
IsFixed(str, f) ==
  /\ Len(str) > f + 1
  /\ str[Len(str) - f] = "."
  /\ IsNat(SubSeq(str, 1, Len(str) - f - 1))
  /\ IsDigits(SubSeq(str, Len(str) - f + 1, Len(str)))

\* 10^f times the number such a numeral denotes
FixedOf(str, f) ==
  NatOf(SubSeq(str, 1, Len(str) - f - 1)) * (10 ^ f)
    + NatOf(SubSeq(str, Len(str) - f + 1, Len(str)))

\* n * u is the multiple of u nearest to x, the larger one of two
Nearest(n, x, u) == 2 * (n * u - x) <= u /\ 2 * (x - n * u) < u

\* str is name( ... ): what stands between the parentheses, split at the spaces
Arguments(str, name) ==
  IF /\ Len(str) > Len(name) + 1
     /\ SubSeq(str, 1, Len(name)) = name
     /\ str[Len(name) + 1] = "("
     /\ str[Len(str)] = ")"
  THEN SplitOnSpace(SubSeq(str, Len(name) + 2, Len(str) - 1))
  ELSE <<>>

EndsWithPercent(str) == Len(str) > 1 /\ str[Len(str)] = "%"

WithoutPercent(str) == SubSeq(str, 1, Len(str) - 1)

\* C16: formatColor renders one stop per format: 'hex' returns stop.hex unchanged;
\* 'rgb' returns "rgb(R G B)", the three rgb integers separated by single spaces;
\* 'hsl' returns "hsl(H S% L%)" with the three hsl integers; 'oklch' returns
\* "oklch(P% C H)" with P = 100 * L to one decimal, C to three decimals and H to one
\* decimal; formatColor never modifies the stop.
C16_FormatColor ==
  call.fn = "formatColor" =>
    LET stop == input.stop
        out == call.ret
    IN /\ call.args.stop = stop
       /\ input.format = "hex" => out = stop.hex
       /\ input.format = "rgb" =>
            LET arg == Arguments(out, <<"r", "g", "b">>)
            IN /\ Len(arg) = 3
               /\ \A i \in 1..3 : IsNat(arg[i]) /\ NatOf(arg[i]) = stop.rgb[i]
       /\ input.format = "hsl" =>
            LET arg == Arguments(out, <<"h", "s", "l">>)
            IN /\ Len(arg) = 3
               /\ IsNat(arg[1]) /\ NatOf(arg[1]) = stop.hsl[1]
               /\ \A i \in 2..3 :
                    /\ EndsWithPercent(arg[i])
                    /\ IsNat(WithoutPercent(arg[i]))
                    /\ NatOf(WithoutPercent(arg[i])) = stop.hsl[i]
       /\ input.format = "oklch" =>
            LET arg == Arguments(out, <<"o", "k", "l", "c", "h">>)
            IN /\ Len(arg) = 3
               /\ EndsWithPercent(arg[1])
               /\ IsFixed(WithoutPercent(arg[1]), 1)
               /\ Nearest(FixedOf(WithoutPercent(arg[1]), 1), stop.oklch[1], Centi \div 10)
               /\ IsFixed(arg[2], 3)
               /\ Nearest(FixedOf(arg[2], 3), stop.oklch[2], Scale \div 1000)
               /\ IsFixed(arg[3], 1)
               /\ Nearest(FixedOf(arg[3], 1), stop.oklch[3], HueScale \div 10)

\* formatColor has rendered stop 500 of #3B82F6 as "oklch(55.0% 0.188 259.8)"
C16_Witness ==
  /\ call.fn = "formatColor"
  /\ input.format = "oklch"
  /\ input.stop.step = 500
  /\ call.ret = <<"o", "k", "l", "c", "h", "(", "5", "5", ".", "0", "%", " ",
                  "0", ".", "1", "8", "8", " ", "2", "5", "9", ".", "8", ")">>

\* what an invocation returns when no other caller runs
Alone(invocation) ==
  CASE invocation.fn = "generateColorScale" -> generateColorScale(invocation.hex)
    [] invocation.fn = "generateNeutralScale" -> generateNeutralScale(invocation.hex)
    [] invocation.fn = "generateSemanticColors" -> generateSemanticColors(invocation.hex)

\* C17: for invocations of generateColorScale, generateNeutralScale and
\* generateSemanticColors by independent callers, under every interleaving of their
\* steps each invocation returns what it returns when run alone, and no invocation
\* waits on another: a caller that has not returned always has a next statement.
C17_ConcurrentSafe ==
  \A c \in Callers :
    /\ frames[c].pc = "done" => frames[c].ret = Alone(input[c])
    /\ frames[c].pc # "done" => NextStatement(c) # "none"

\* both callers have returned, the first of them while the other was inside its map
C17_Witness ==
  /\ \A c \in Callers : frames[c].pc = "done"
  /\ input["A"].fn = "generateSemanticColors"
  /\ log[1].fn # "generateSemanticColors"

\* C18: after any sequence of calls of the generators and of writes by the caller to
\* the ColorStop records and tuples it was returned, LIGHTNESS_STOPS holds its eleven
\* original (step, L) pairs, and every call generateColorScale(h) returned what the
\* first call generateColorScale(h) returned.
C18_TableAndResultsKept ==
  /\ LIGHTNESS_STOPS = LightnessStopTable
  /\ \A i, j \in 1..Len(log) :
       (/\ i < j
        /\ log[i].fn = "generateColorScale"
        /\ log[j].fn = "generateColorScale"
        /\ log[i].args = log[j].args) => log[j].ret = log[i].ret

\* generateColorScale, a write to the returned value, generateColorScale again
C18_Witness ==
  /\ Len(log) = 3
  /\ log[1].fn = "generateColorScale"
  /\ log[2].fn = "mutation"
  /\ log[2].ret # log[1].ret
  /\ log[3].fn = "generateColorScale"
  /\ log[3].ret = log[1].ret

\* the multiplier the steps of the fixed table get
MultiplierOfStep(step) ==
  IF step \in {50, 100} THEN 30 * Centi
  ELSE IF step = 950 THEN 70 * Centi
  ELSE Scale

\* C19: in the scale generateColorScale returns, the oklch chroma of every stop is the
\* chroma of the base colour times the multiplier chosen from the stop's table
\* lightness: 0.3 for steps 50 and 100, 0.7 for step 950 and 1.0 for steps 200 to 900.
C19_ChromaMultiplier ==
  call.fn = "generateColorScale" =>
    LET C == BaseChroma(input)
    IN \A i \in 1..Len(call.ret) :
         /\ call.ret[i].oklch[2] = Mul(C, MultiplierOfStep(call.ret[i].step))
         /\ MultiplierOfStep(call.ret[i].step) = chromaMultiplier(LightnessStopTable[i].L)

\* the scale of #d72891: step 900 keeps the base chroma, step 950 has less
C19_Witness ==
  /\ call.fn = "generateColorScale"
  /\ input = <<"#", "d", "7", "2", "8", "9", "1">>
  /\ StopAt(call.ret, 900).oklch[2] = BaseChroma(input)
  /\ StopAt(call.ret, 950).oklch[2] < BaseChroma(input)
  /\ StopAt(call.ret, 950).oklch[2] > 0

\* the OKLCH coordinates of the colour hexToRgb reads from a string
BaseOklch(hex) == With(hexToRgb(hex), LAMBDA rgb : rgbToOklch(rgb[1], rgb[2], rgb[3]))

\* two colours of equal OKLCH chroma and hue and of different lightness
SameChromaAndHue(hexA, hexB) ==
  /\ BaseOklch(hexA)[2] = BaseOklch(hexB)[2]
  /\ BaseOklch(hexA)[3] = BaseOklch(hexB)[3]
  /\ BaseOklch(hexA)[1] # BaseOklch(hexB)[1]

\* C20: the lightness of the base colour is discarded: in every scale
\* generateColorScale returns, the oklch L of the k-th stop is the L the table has
\* for its step, and two base colours of equal OKLCH chroma and hue and of different
\* lightness get the same scale.
C20_BaseLightnessDiscarded ==
  /\ \A i \in 1..Len(log) : \A k \in 1..Len(LightnessStopTable) :
       /\ log[i].ret[k].step = LightnessStopTable[k].step
       /\ log[i].ret[k].oklch[1] = LightnessStopTable[k].L
  /\ (Len(log) = 2 /\ SameChromaAndHue(log[1].args, log[2].args)) =>
       log[1].ret = log[2].ret

\* the scales of #222222 and #333333, whose lightnesses differ
C20_Witness ==
  /\ Len(log) = 2
  /\ log[1].args = <<"#", "2", "2", "2", "2", "2", "2">>
  /\ log[2].args = <<"#", "3", "3", "3", "3", "3", "3">>
  /\ SameChromaAndHue(log[1].args, log[2].args)
  /\ BaseOklch(log[1].args)[1] # LightnessStopTable[6].L
  /\ log[1].ret = log[2].ret

\* the hex string of the colour OKLCH (L, C, H)
HexOfOklch(L, C, H) == With(oklchToRgb(L, C, H), LAMBDA n : rgbToHex(n[1], n[2], n[3]))

\* C21: for every brand string b, generateNeutralScale(b) is
\* generateColorScale(rgbToHex(oklchToRgb(0.55, 0.01, H))) with H the OKLCH hue of
\* hexToRgb(b); a brand of the same hue, whatever its chroma and lightness, gets the
\* same neutral scale.
C21_NeutralIsScaleOfTint ==
  call.fn = "generateNeutralScale" =>
    /\ call.ret = generateColorScale(HexOfOklch(55 * Centi, 1 * Centi, BaseOklch(input)[3]))
    /\ \A other \in BrandColors :
         BaseOklch(other)[3] = BaseOklch(input)[3] => generateNeutralScale(other) = call.ret

\* the neutral scale of #222222, which has the hue of #333333 and another lightness
C21_Witness ==
  /\ call.fn = "generateNeutralScale"
  /\ input = <<"#", "2", "2", "2", "2", "2", "2">>
  /\ BaseOklch(<<"#", "3", "3", "3", "3", "3", "3">>)[3] = BaseOklch(input)[3]
  /\ BaseOklch(<<"#", "3", "3", "3", "3", "3", "3">>)[1] # BaseOklch(input)[1]
  /\ call.ret[6].oklch[2] > 0

\* base hue and influence of each category, as the claim lists them
CategoryBlend ==
  [success |-> <<145 * HueScale, 10 * Centi>>,
   warning |-> <<70 * HueScale, 10 * Centi>>,
   error |-> <<25 * HueScale, 8 * Centi>>,
   info |-> <<250 * HueScale, 15 * Centi>>]

\* baseHue + (brandHue - baseHue) * influence, reduced modulo 360 into [0, 360)
BlendedModulo(brandHue, baseHue, influence) ==
  (baseHue + Mul(brandHue - baseHue, influence)) % (360 * HueScale)

\* C22: every category of generateSemanticColors is generateColorScale of the hex of
\* OKLCH (0.55, 0.15, h), h = baseHue + (brandHue - baseHue) * influence modulo 360,
\* with (145, 0.10) for success, (70, 0.10) for warning, (25, 0.08) for error and
\* (250, 0.15) for info; only the hue of the brand enters.
C22_SemanticDerivation ==
  call.fn = "generateSemanticColors" =>
    /\ DOMAIN call.ret = DOMAIN CategoryBlend
    /\ \A k \in DOMAIN CategoryBlend :
         call.ret[k] = generateColorScale(HexOfOklch(55 * Centi, 15 * Centi,
           BlendedModulo(BaseOklch(input)[3], CategoryBlend[k][1], CategoryBlend[k][2])))

\* the semantic colours of the light colour #f6f63b, whose lightness is not 0.55
C22_Witness ==
  /\ call.fn = "generateSemanticColors"
  /\ input = <<"#", "f", "6", "f", "6", "3", "b">>
  /\ BaseOklch(input)[1] > 90 * Centi
  /\ BaseOklch(input)[3] > 0
  /\ call.ret.error[6].oklch[3] # 25 * HueScale

\* C23: for every brand hue in [0, 360), every base hue, negative or from 360 on
\* included, and every influence, the normalized hue generateHarmonizedSemantic passes
\* to oklchToRgb lies in [0, 360).
C23_NormalizedHueInRange ==
  (call.fn = "generateHarmonizedSemantic"
     /\ 0 <= call.ret.brandH /\ call.ret.brandH < 360 * HueScale) =>
    (0 <= call.ret.normalizedHue /\ call.ret.normalizedHue < 360 * HueScale)

\* a negative base hue whose blend with the brand hue is negative too
C23_Witness ==
  /\ call.fn = "generateHarmonizedSemantic"
  /\ input.baseHue = -725 * HueScale
  /\ call.ret.brandH > 0
  /\ input.baseHue + Mul(call.ret.brandH - input.baseHue, input.influence) < 0
  /\ call.ret.normalizedHue > 0

\* C28: in every ColorStop that generateColorScale, generateNeutralScale or
\* generateSemanticColors emits, hex is rgbToHex of the stop's rgb and hsl is rgbToHsl
\* of the stop's rgb.
C28_SrgbFieldsAgree ==
  call.fn # "none" =>
    \A stop \in StopsOf(call) :
      /\ stop.hex = rgbToHex(stop.rgb[1], stop.rgb[2], stop.rgb[3])
      /\ stop.hsl = rgbToHsl(stop.rgb[1], stop.rgb[2], stop.rgb[3])

\* a scale of #3b82f6 with a stop whose rgb does not convert back to its oklch
C28_Witness ==
  /\ call.fn = "generateColorScale"
  /\ input = <<"#", "3", "b", "8", "2", "f", "6">>
  /\ \E stop \in StopsOf(call) :
       /\ stop.hsl[2] > 0
       /\ rgbToOklch(stop.rgb[1], stop.rgb[2], stop.rgb[3]) # stop.oklch

\* C29: for all integers r, g, b in 0..255, hexToRgb(rgbToHex(r, g, b)) = (r, g, b);
\* for every string h of six hexadecimal digits, with or without '#' and in any case,
\* rgbToHex(hexToRgb(h)) is '#' followed by the digits of h in small letters.
C29_HexRoundTrips ==
  /\ (call.fn = "hexToRgb" /\ Len(input) = 3) => call.ret = input
  /\ (call.fn = "rgbToHex" /\ Len(input) > 3) =>
       call.ret = <<"#">> \o Lowercase(WithoutHash(input))

\* three bytes with one-digit and letter channels have come back from their string
C29_Witness ==
  /\ call.fn = "hexToRgb"
  /\ input = <<10, 171, 9>>
  /\ call.args = <<"#", "0", "a", "a", "b", "0", "9">>
  /\ call.ret = input

(***************************************************************************)
(* Properties of the spacing and the type scale, checked under SpecTokens  *)
(***************************************************************************)
\* value, in thousandths, is base * (p/q)^exponent rounded to two decimals: a whole
\* number of hundredths at most half a hundredth away
IsRoundedTo2(value, base, ratio, exponent) ==
  LET num == IF exponent >= 0 THEN base * ratio[1] ^ exponent
             ELSE base * ratio[2] ^ (0 - exponent)
      den == IF exponent >= 0 THEN 10 * ratio[2] ^ exponent
             ELSE 10 * ratio[1] ^ (0 - exponent)
  IN /\ value % 10 = 0
     /\ 2 * Abs((value \div 10) * den - num) <= den

\* C24: generateSpacingScale returns exactly `steps` tokens, token i with value
\* baseValue * ratio^(i - floor(steps/2)) rounded to two decimals and formatted = the
\* value followed by the unit; the token at index floor(steps/2) has value baseValue,
\* the tokens before it smaller values and the tokens after it larger ones when
\* ratio > 1.
C24_SpacingScale ==
  call.fn = "generateSpacingScale" =>
    LET tokens == call.ret
        midpoint == input.steps \div 2
    IN /\ Len(tokens) = input.steps
       /\ \A n \in 1..Len(tokens) :
            /\ IsRoundedTo2(tokens[n].value, input.baseValue, input.ratio, n - 1 - midpoint)
            /\ tokens[n].formatted = NumberToString(tokens[n].value) \o input.unit
       /\ input.steps >= 1 => tokens[midpoint + 1].value = input.baseValue
       /\ input.ratio[1] > input.ratio[2] =>
            \A n \in 1..Len(tokens) :
              /\ n < midpoint + 1 => tokens[n].value < input.baseValue
              /\ n > midpoint + 1 => tokens[n].value > input.baseValue

\* C25: with namingStyle 'tshirt', for every steps >= 1 (steps = 10 of the usage
\* comment included) the token at index floor(steps/2) is named 'md'.
C25_MidpointIsMd ==
  (call.fn = "generateSpacingScale" /\ input.namingStyle = "tshirt" /\ input.steps >= 1) =>
    call.ret[(input.steps \div 2) + 1].name = <<"m", "d">>

\* the name the claim gives the k-th step below base
NameBelow(k) ==
  CASE k = 1 -> <<"s", "m">>
    [] k = 2 -> <<"x", "s">>
    [] k = 3 -> <<"x", "x", "s">>
    [] OTHER -> <<"d", "o", "w", "n", "-">> \o ToString10(k)

\* the name the claim gives the k-th step above base, k <= 10: lg, xl, 2xl, ..., 9xl
NameAbove(k) ==
  CASE k = 1 -> <<"l", "g">>
    [] k = 2 -> <<"x", "l">>
    [] OTHER -> ToString10(k - 1) \o <<"x", "l">>

\* C26: generateTypeScale returns exactly stepsDown + 1 + stepsUp tokens, the steps
\* below base first and the deepest of them first: the token at index stepsDown is
\* named 'base' and has size baseSize, the k-th token below it has size
\* baseSize / ratio^k rounded to two decimals and the k-th above it baseSize * ratio^k
\* rounded to two decimals; the steps below are named sm, xs, xxs and then down-k,
\* the first ten steps above lg, xl, 2xl, ..., 9xl.
C26_TypeScale ==
  call.fn = "generateTypeScale" =>
    LET tokens == call.ret
        base == input.stepsDown + 1
    IN /\ Len(tokens) = input.stepsDown + 1 + input.stepsUp
       /\ tokens[base].name = <<"b", "a", "s", "e">>
       /\ tokens[base].size = input.baseSize
       /\ \A k \in 1..input.stepsDown :
            /\ IsRoundedTo2(tokens[base - k].size, input.baseSize, input.ratio, 0 - k)
            /\ tokens[base - k].name = NameBelow(k)
       /\ \A k \in 1..input.stepsUp :
            /\ IsRoundedTo2(tokens[base + k].size, input.baseSize, input.ratio, k)
            /\ k <= 10 => tokens[base + k].name = NameAbove(k)

\* a scale of 16 with ratio 2, four steps below base and ten above
C26_Witness ==
  /\ call.fn = "generateTypeScale"
  /\ input.baseSize = 16 * Milli
  /\ input.ratio = <<2, 1>>
  /\ input.stepsDown = 4
  /\ input.stepsUp = 10
  /\ call.ret[1].name = <<"d", "o", "w", "n", "-", "4">>
  /\ call.ret[1].size = 1 * Milli
  /\ call.ret[15].name = <<"9", "x", "l">>
  /\ call.ret[15].size = 16384 * Milli

\* the line height, in hundredths, the claim gives a font size in thousandths
LineHeightFor(size) ==
  CASE size <= 14 * Milli -> 170
    [] 14 * Milli < size /\ size <= 18 * Milli -> 160
    [] 18 * Milli < size /\ size <= 24 * Milli -> 150
    [] 24 * Milli < size /\ size <= 32 * Milli -> 140
    [] 32 * Milli < size /\ size <= 48 * Milli -> 130
    [] size > 48 * Milli -> 120

\* the number, in hundredths, that a lineHeight string "d.dd" writes
LineHeightValue(str) == 100 * NibbleOf(str[1]) + 10 * NibbleOf(str[3]) + NibbleOf(str[4])

\* C27: calculateLineHeight returns 1.7 for size <= 14, 1.6 up to 18, 1.5 up to 24,
\* 1.4 up to 32, 1.3 up to 48 and 1.2 above, and never more for a larger font size;
\* the lineHeight values of a generated type scale never increase from the first token
\* to the last when ratio >= 1.
C27_LineHeights ==
  /\ call.fn = "calculateLineHeight" =>
       /\ call.ret = LineHeightFor(input.fontSize)
       /\ \A larger \in FontSizes :
            larger >= input.fontSize => calculateLineHeight(larger) <= call.ret
  /\ (call.fn = "generateTypeScale" /\ input.ratio[1] >= input.ratio[2]) =>
       \A n \in 1..(Len(call.ret) - 1) :
         LineHeightValue(call.ret[n].lineHeight) >= LineHeightValue(call.ret[n + 1].lineHeight)

\* the tokens a call of generateSpacingScale, generateTypeScale or generateJSON is about
TokensOf(c) == IF c.fn = "generateJSON" THEN c.args ELSE c.ret

\* the prefix generateJSON puts before the names: 'spacing' or 'text'
PrefixOf(fn) ==
  IF fn = "generateSpacingScale" THEN <<"s", "p", "a", "c", "i", "n", "g">>
  ELSE <<"t", "e", "x", "t">>

\* C30: the names of the tokens of one scale of generateSpacingScale (any steps >= 0,
\* either naming style, the names that are the 1-based index included) or of
\* generateTypeScale (any stepsUp, stepsDown >= 0, the names down-k and (k+1)xl
\* included) are pairwise distinct, and generateJSON emits one key per token, each
\* with the value of its own token.
C30_DistinctNames ==
  call.fn \in {"generateSpacingScale", "generateTypeScale", "generateJSON"} =>
    LET tokens == TokensOf(call)
    IN /\ \A m, n \in 1..Len(tokens) : m # n => tokens[m].name # tokens[n].name
       /\ call.fn = "generateJSON" =>
            /\ Len(call.ret) = Len(tokens)
            /\ \A k \in 1..Len(tokens) :
                 /\ call.ret[k].key = PrefixOf(input.fn) \o <<"-">> \o tokens[k].name
                 /\ call.ret[k].value =
                      IF input.fn = "generateSpacingScale" THEN tokens[k].formatted
                      ELSE [fontSize |-> tokens[k].formatted,
                            lineHeight |-> tokens[k].lineHeight]

\* the JSON members of a t-shirt scale of 14 steps, whose last two names are 13 and 14
C30_Witness ==
  /\ call.fn = "generateJSON"
  /\ input.fn = "generateSpacingScale"
  /\ input.namingStyle = "tshirt"
  /\ input.steps = 14
  /\ call.args[12].name = <<"6", "x", "l">>
  /\ call.args[13].name = <<"1", "3">>
  /\ call.ret[14].key = <<"s", "p", "a", "c", "i", "n", "g", "-", "1", "4">>

====
